---- MODULE Spec2Model ----
(***************************************************************************)
(* A model of the S2U order-management service (Django + Redis + the      *)
(* Korona Cloud API): the global refresh job and its lock, the monthly     *)
(* sales cache tiers and receipt scans, and the stock synchronisation.     *)
(*                                                                         *)
(* Time is kept as remaining lifetimes (the seconds a Redis key still has  *)
(* to live, the age of a row), advanced by the action of each part that    *)
(* lets time pass.                                                         *)
(***************************************************************************)
EXTENDS Integers, Sequences, FiniteSets, TLC

VARIABLES
    \* ---- the global refresh job (views.py) ----
    reqPc,        \* per start request: "idle", "checked", "done"
    reqResult,    \* per start request: "none", "job" (200 + job id), "conflict" (409)
    jobPc,        \* per job id: the position of its _run_refresh_job worker
    lock,         \* the Redis key refresh_job:lock: [val, ttl]
    jobStatus,    \* the Redis keys refresh_job:<id>: [step, progress, done, error]
    acquired,     \* per job id: its SET NX on the lock succeeded
    raised,       \* per job id: a sync step of the job raised
    \* ---- monthly sales (views.py, korona.py, sync_all_monthly_sales.py) ----
    receipts,     \* the receipts of the window at Korona, as the pages it serves
    fast,         \* the Redis keys monthly_sales:<product>:<store>: [val, ttl]
    rows,         \* the MonthlySales rows of the product: [present, qty, age]
    live,         \* per store: the last complete live computation stored for it
    resp,         \* the outcome of the last monthly-sales operation
    \* ---- product stock (korona.py, sync_stocks.py, views.py) ----
    stockApi,     \* what Korona answers now for products/<id>/stocks
    stockCache,   \* the Redis key stock:<product_id>: [present, payload, ttl]
    stocks,       \* the ProductStock rows of the product: [present, actual]
    breaker,      \* korona_breaker: [state, counter, remaining]
    sresp,        \* the outcome of the last stock operation
    \* ---- Redis (redis_client.py) ----
    redisUp,      \* the Redis server answers the shared client
    \* ---- the receipt aggregators applied to the receipts ----
    aggOut,       \* the last aggregate computed: [fn, stores, failAt, out]
    \* ---- sync_monthly_sales.py: the monthly need of one (store, product) ----
    needed,       \* [total_quantity, days_period, monthly_needed (0: not computed)]
    \* ---- korona.py: the calls made through _api_request ----
    apiCalls,     \* the calls so far, oldest first: [net, result, called]
    \* ---- sync_stocks.py: the transaction of the product being synchronised ----
    txn,          \* [open, results, i, rows, seen]
    \* ---- sync_stores.py, load_products.py: the catalog ----
    korona,       \* what Korona serves: [organizationalUnits, products]
    storeRows,    \* the Store rows by korona_id: [present, name, active]
    productRows,  \* the Product rows by number: [present, name, korona_id]
    syncLog,      \* the reports of the last two runs against this catalog, newest last
    \* ---- a receipt scan followed page by page ----
    scan,         \* [fn, stores, running, failed, page, requested, seen, acc]
    \* ---- views.py: one weekly order list ----
    weekly,       \* the list: [finalized, item], the item of one product
    itemReq       \* per item request: [pc, op, status, retry]

refreshVars == <<reqPc, reqResult, jobPc, lock, jobStatus, acquired, raised>>

salesVars == <<receipts, fast, rows, live, resp>>

stockVars == <<stockApi, stockCache, stocks, breaker, sresp>>

catalogVars == <<korona, storeRows, productRows, syncLog>>

listVars == <<weekly, itemReq>>

\* What each part leaves alone.
notRefresh == <<salesVars, stockVars, redisUp, aggOut, needed, apiCalls, txn, catalogVars, scan, listVars>>

notSales == <<refreshVars, stockVars, redisUp, aggOut, needed, apiCalls, txn, catalogVars, scan, listVars>>

notStock == <<refreshVars, salesVars, redisUp, aggOut, needed, apiCalls, txn, catalogVars, scan, listVars>>

notAggregate == <<refreshVars, salesVars, stockVars, redisUp, needed, apiCalls, txn, catalogVars, scan, listVars>>

notNeeded == <<refreshVars, salesVars, stockVars, redisUp, aggOut, apiCalls, txn, catalogVars, scan, listVars>>

vars == <<reqPc, reqResult, jobPc, lock, jobStatus, acquired, raised,
          receipts, fast, rows, live, resp,
          stockApi, stockCache, stocks, breaker, sresp, redisUp, aggOut, needed, apiCalls, txn, catalogVars, scan, listVars>>

(***************************************************************************)
(* The global refresh job                                                  *)
(***************************************************************************)

\* The job ids: one per start request (uuid4, so never shared).
Jobs == {"j1", "j2"}

\* The lease of the lock, in seconds.
LockLease == 1800

\* The seconds that pass in one step of the clock.
TickSeconds == 900

NoLock == [val |-> "", ttl |-> 0]

NoStatus == [step |-> "none", progress |-> 0, done |-> FALSE, error |-> FALSE]

\* redis_client.exists(key)
redis_exists(key) == key.val # ""

\* redis_client.setnx(key, value, ex): SET NX EX, atomic.
redis_setnx(key, value, ex) ==
    IF key.val = "" THEN [val |-> value, ttl |-> ex] ELSE key

\* A key without a lifetime.
NeverAged(key, secs) == key

\* What a key is after `secs` seconds: gone once its lifetime is used up.
Aged(key, secs) ==
    IF key.val # "" /\ key.ttl > secs
    THEN [key EXCEPT !.ttl = key.ttl - secs]
    ELSE NoLock

\* The status written as the payload alone, nothing kept of what was there.
_replace_progress(job_id, payload) ==
    jobStatus' = [jobStatus EXCEPT ![job_id] =
        [f \in DOMAIN NoStatus |->
            IF f \in DOMAIN payload THEN payload[f] ELSE NoStatus[f]]]

\* _update_progress(job_id, payload): read the status, update it, write it back.
_update_progress(job_id, payload) ==
    jobStatus' = [jobStatus EXCEPT ![job_id] =
        [f \in DOMAIN jobStatus[job_id] |->
            IF f \in DOMAIN payload THEN payload[f] ELSE jobStatus[job_id][f]]]

InitRefresh ==
    /\ reqPc = [j \in Jobs |-> "idle"]
    /\ reqResult = [j \in Jobs |-> "none"]
    /\ jobPc = [j \in Jobs |-> "none"]
    /\ lock = NoLock
    /\ jobStatus = [j \in Jobs |-> NoStatus]
    /\ acquired = [j \in Jobs |-> FALSE]
    /\ raised = [j \in Jobs |-> FALSE]

\* refresh_all_start_api, first half: the check for a running refresh.
StartCheck(j) ==
    /\ reqPc[j] = "idle"
    /\ IF redis_exists(lock)
       THEN /\ reqPc' = [reqPc EXCEPT ![j] = "done"]
            /\ reqResult' = [reqResult EXCEPT ![j] = "conflict"]
       ELSE /\ reqPc' = [reqPc EXCEPT ![j] = "checked"]
            /\ UNCHANGED reqResult
    /\ UNCHANGED <<jobPc, lock, jobStatus, acquired, raised>>
    /\ UNCHANGED notRefresh

\* refresh_all_start_api, second half: seed the status, start the worker
\* thread, answer with the job id.
StartSpawn(j) ==
    /\ reqPc[j] = "checked"
    /\ jobStatus' = [jobStatus EXCEPT ![j] =
           [step |-> "queued", progress |-> 0, done |-> FALSE, error |-> FALSE]]
    /\ jobPc' = [jobPc EXCEPT ![j] = "setnx"]
    /\ reqPc' = [reqPc EXCEPT ![j] = "done"]
    /\ reqResult' = [reqResult EXCEPT ![j] = "job"]
    /\ UNCHANGED <<lock, acquired, raised>>
    /\ UNCHANGED notRefresh

\* Whether the worker goes on after its SET NX on the lock: the result of
\* redis_setnx is not looked at.
ProceedsAfterSetnx(got) == TRUE

\* _run_refresh_job: redis_setnx(_refresh_lock_key(), job_id, ex=1800)
JobSetnx(j) ==
    /\ jobPc[j] = "setnx"
    /\ lock' = redis_setnx(lock, j, LockLease)
    /\ acquired' = [acquired EXCEPT ![j] = ~redis_exists(lock)]
    /\ jobPc' = [jobPc EXCEPT ![j] =
           IF ProceedsAfterSetnx(~redis_exists(lock)) THEN "init" ELSE "finally_get"]
    /\ UNCHANGED <<reqPc, reqResult, jobStatus, raised>>
    /\ UNCHANGED notRefresh

\* _run_refresh_job: the _update_progress calls between the sync steps.
JobProgress(j) ==
    /\ \/ /\ jobPc[j] = "init"
          /\ _update_progress(j, [step |-> "init", done |-> FALSE])
          /\ jobPc' = [jobPc EXCEPT ![j] = "stores_msg"]
       \/ /\ jobPc[j] = "stores_msg"
          /\ _update_progress(j, [step |-> "stores", progress |-> 5])
          /\ jobPc' = [jobPc EXCEPT ![j] = "sync_stores"]
       \/ /\ jobPc[j] = "stores_done"
          /\ _update_progress(j, [progress |-> 40])
          /\ jobPc' = [jobPc EXCEPT ![j] = "products_msg"]
       \/ /\ jobPc[j] = "products_msg"
          /\ _update_progress(j, [step |-> "products", progress |-> 45])
          /\ jobPc' = [jobPc EXCEPT ![j] = "load_products"]
       \/ /\ jobPc[j] = "products_done"
          /\ _update_progress(j, [progress |-> 90])
          /\ jobPc' = [jobPc EXCEPT ![j] = "done_msg"]
       \/ /\ jobPc[j] = "done_msg"
          /\ _update_progress(j, [step |-> "done", progress |-> 100, done |-> TRUE])
          /\ jobPc' = [jobPc EXCEPT ![j] = "finally_get"]
    /\ UNCHANGED <<reqPc, reqResult, lock, acquired, raised>>
    /\ UNCHANGED notRefresh

\* _run_refresh_job: call_command("sync_stores") and
\* call_command("load_products", skip_csv=True); either returns or raises.
JobSync(j) ==
    /\ jobPc[j] \in {"sync_stores", "load_products"}
    /\ \E ok \in BOOLEAN :
          /\ jobPc' = [jobPc EXCEPT ![j] =
                 IF ~ok THEN "except"
                 ELSE IF jobPc[j] = "sync_stores" THEN "stores_done"
                 ELSE "products_done"]
          /\ raised' = [raised EXCEPT ![j] = raised[j] \/ ~ok]
    /\ UNCHANGED <<reqPc, reqResult, lock, jobStatus, acquired>>
    /\ UNCHANGED notRefresh

\* Where the worker goes from its except block.
AfterExceptSkipsCleanup == "finished"

AfterExcept == "finally_get"

\* _run_refresh_job: except Exception -> the error status.
JobExcept(j) ==
    /\ jobPc[j] = "except"
    /\ _update_progress(j, [step |-> "error", error |-> TRUE, done |-> TRUE])
    /\ jobPc' = [jobPc EXCEPT ![j] = AfterExcept]
    /\ UNCHANGED <<reqPc, reqResult, lock, acquired, raised>>
    /\ UNCHANGED notRefresh

\* _run_refresh_job, finally: if redis_client.get(lock key) == job_id
JobFinallyGet(j) ==
    /\ jobPc[j] = "finally_get"
    /\ jobPc' = [jobPc EXCEPT ![j] =
           IF lock.val = j THEN "finally_del" ELSE "finished"]
    /\ UNCHANGED <<reqPc, reqResult, lock, jobStatus, acquired, raised>>
    /\ UNCHANGED notRefresh

\* _run_refresh_job, finally: redis_delete(lock key)
JobFinallyDelete(j) ==
    /\ jobPc[j] = "finally_del"
    /\ lock' = NoLock
    /\ jobPc' = [jobPc EXCEPT ![j] = "finished"]
    /\ UNCHANGED <<reqPc, reqResult, jobStatus, acquired, raised>>
    /\ UNCHANGED notRefresh

\* The worker is a daemon thread: it dies with its process, at any point,
\* without running its cleanup.
JobCrash(j) ==
    /\ jobPc[j] \notin {"none", "finished", "crashed"}
    /\ jobPc' = [jobPc EXCEPT ![j] = "crashed"]
    /\ UNCHANGED <<reqPc, reqResult, lock, jobStatus, acquired, raised>>
    /\ UNCHANGED notRefresh

\* Time passes: the lock's lease runs down.
RefreshTick ==
    /\ lock.val # ""
    /\ lock' = Aged(lock, TickSeconds)
    /\ UNCHANGED <<reqPc, reqResult, jobPc, jobStatus, acquired, raised>>
    /\ UNCHANGED notRefresh

NextRefresh ==
    \/ \E j \in Jobs : StartCheck(j)
    \/ \E j \in Jobs : StartSpawn(j)
    \/ \E j \in Jobs : JobSetnx(j)
    \/ \E j \in Jobs : JobProgress(j)
    \/ \E j \in Jobs : JobSync(j)
    \/ \E j \in Jobs : JobExcept(j)
    \/ \E j \in Jobs : JobFinallyGet(j)
    \/ \E j \in Jobs : JobFinallyDelete(j)
    \/ \E j \in Jobs : JobCrash(j)
    \/ RefreshTick

(***************************************************************************)
(* Monthly sales: the receipts at Korona and the scans over them           *)
(***************************************************************************)

\* The active Store rows with a Korona id, and the order a queryset yields them.
Stores == {"s1", "s2"}

StoreOrder == <<"s1", "s2">>

\* Store.korona_id
korona_id == [s \in Stores |-> IF s = "s1" THEN "k1" ELSE "k2"]

\* The one Product row the requests are about (number and Korona id).
ProductId == "p"

Item(product, quantity) == [product |-> product, quantity |-> quantity]

Receipt(ou, voided, cancelled, items) ==
    [organizationalUnit |-> ou, voided |-> voided, cancelled |-> cancelled,
     items |-> items]

\* Page 1 of the window: a sale at k1, a voided receipt at k2, a sale at a
\* store that is not known locally.
FirstPage ==
    << Receipt("k1", FALSE, FALSE, <<Item("p", 2)>>),
       Receipt("k2", TRUE, FALSE, <<Item("p", 1)>>),
       Receipt("k9", FALSE, FALSE, <<Item("p", 5)>>) >>

\* Two windows of receipts: in the first the last page holds a sale of two
\* products at k1 and a return at k2, in the second a sale at each store.
ReceiptsA ==
    << FirstPage,
       << Receipt("k1", FALSE, FALSE, <<Item("p", 1), Item("q", 1)>>),
          Receipt("k2", FALSE, FALSE, <<Item("p", -1)>>) >> >>

ReceiptsB ==
    << FirstPage,
       << Receipt("k1", FALSE, FALSE, <<Item("p", 2)>>),
          Receipt("k2", FALSE, TRUE, <<Item("p", 3)>>),
          Receipt("k2", FALSE, FALSE, <<Item("p", 1)>>) >> >>

Datasets == {ReceiptsA, ReceiptsB}

\* Where a scan's request can fail: at no page (0) or at one of the pages.
FailPoints(data) == 0 .. Len(data)

Range(seq) == {seq[i] : i \in 1 .. Len(seq)}

\* calculate_monthly_sales_bulk: the items of one receipt, for our product.
RECURSIVE BulkItems(_, _, _)
BulkItems(items, i, product_id) ==
    IF i > Len(items) THEN 0
    ELSE (IF items[i].product = product_id THEN items[i].quantity ELSE 0)
         + BulkItems(items, i + 1, product_id)

\* calculate_monthly_sales_bulk: the receipts of one page.
RECURSIVE BulkReceipts(_, _, _, _, _)
BulkReceipts(page_receipts, i, product_id, store_map, results) ==
    IF i > Len(page_receipts) THEN results
    ELSE LET receipt == page_receipts[i]
             store_korona_id == receipt.organizationalUnit
         IN  IF receipt.voided \/ receipt.cancelled
             THEN BulkReceipts(page_receipts, i + 1, product_id, store_map, results)
             ELSE IF store_korona_id \notin DOMAIN store_map
             THEN BulkReceipts(page_receipts, i + 1, product_id, store_map, results)
             ELSE BulkReceipts(page_receipts, i + 1, product_id, store_map,
                      [results EXCEPT ![store_map[store_korona_id]] =
                          @ + BulkItems(receipt.items, 1, product_id)])

\* calculate_monthly_sales_bulk: the page loop. `failAt` is the page whose
\* request fails (0: none): the except clause of the loop logs the error and
\* breaks, so the scan returns what it has summed so far. Returns the sums,
\* the number of page requests issued and whether a request failed.
RECURSIVE BulkPages(_, _, _, _, _, _)
BulkPages(data, failAt, page, product_id, store_map, results) ==
    IF page = failAt
    THEN [results |-> results, calls |-> page, failed |-> TRUE]
    ELSE LET page_receipts == IF page <= Len(data) THEN data[page] ELSE <<>>
             summed == BulkReceipts(page_receipts, 1, product_id, store_map, results)
         IN  IF page_receipts = <<>>
             THEN [results |-> results, calls |-> page, failed |-> FALSE]
             ELSE IF page >= Len(data)
             THEN [results |-> summed, calls |-> page, failed |-> FALSE]
             ELSE BulkPages(data, failAt, page + 1, product_id, store_map, summed)

\* calculate_monthly_sales_bulk(product_id, stores, days=30) over the
\* receipts `data`, its page `failAt` failing.
calculate_monthly_sales_bulk(product_id, stores, data, failAt) ==
    BulkPages(data, failAt, 1, product_id,
              [k \in {korona_id[s] : s \in stores} |->
                  CHOOSE s \in stores : korona_id[s] = k],
              [s \in stores |-> 0])

\* Command._aggregate_sales: the items of one receipt; only quantities > 0
\* count. `sales` maps <<store Korona id, product Korona id>> to a quantity.
RECURSIVE AggregateItems(_, _, _, _)
AggregateItems(items, i, store_id, sales) ==
    IF i > Len(items) THEN sales
    ELSE LET prod == items[i].product
             qty == items[i].quantity
             key == <<store_id, prod>>
         IN  IF qty > 0
             THEN AggregateItems(items, i + 1, store_id,
                      [k \in DOMAIN sales \cup {key} |->
                          IF k = key
                          THEN (IF key \in DOMAIN sales THEN sales[key] ELSE 0) + qty
                          ELSE sales[k]])
             ELSE AggregateItems(items, i + 1, store_id, sales)

\* Command._aggregate_sales: the receipts of one page.
RECURSIVE AggregateReceipts(_, _, _)
AggregateReceipts(results, i, sales) ==
    IF i > Len(results) THEN sales
    ELSE IF results[i].voided \/ results[i].cancelled
    THEN AggregateReceipts(results, i + 1, sales)
    ELSE AggregateReceipts(results, i + 1,
             AggregateItems(results[i].items, 1, results[i].organizationalUnit, sales))

\* Command._aggregate_sales: the page loop; a failed request breaks out of
\* the loop and the sums so far are returned.
RECURSIVE AggregatePages(_, _, _, _)
AggregatePages(data, failAt, page, sales) ==
    IF page = failAt
    THEN [sales |-> sales, calls |-> page, failed |-> TRUE]
    ELSE LET results == IF page <= Len(data) THEN data[page] ELSE <<>>
             summed == AggregateReceipts(results, 1, sales)
         IN  IF results = <<>>
             THEN [sales |-> sales, calls |-> page, failed |-> FALSE]
             ELSE IF page >= Len(data)
             THEN [sales |-> summed, calls |-> page, failed |-> FALSE]
             ELSE AggregatePages(data, failAt, page + 1, summed)

\* Command._aggregate_sales(start, end)
_aggregate_sales(data, failAt) ==
    AggregatePages(data, failAt, 1, [k \in {} |-> 0])


(***************************************************************************)
(* Monthly sales: the two cache tiers and the requests                     *)
(***************************************************************************)

\* The lifetime the comments beside the Redis writes speak of (30 minutes).
MonthlySalesExHalfHour == 1800

\* ex=3600 of the Redis writes of the monthly-sales views, in seconds.
MonthlySalesEx == 3600

\* MonthlySales.is_stale: older than timedelta(minutes=30), in seconds.
StaleSeconds == 1800

\* CACHE_TTL_SECONDS of korona.py: the one-hour TTL of the fast tier.
CACHE_TTL_SECONDS == 3600

\* The seconds that pass in one step of the monthly-sales clock, and the age
\* from which on a row's age is no longer told apart.
SalesTickSeconds == 1200

MaxAge == 3600

NoKey == [val |-> 0, ttl |-> 0]

NoRow == [present |-> FALSE, qty |-> 0, age |-> 0]

None == [some |-> FALSE, val |-> 0]

Some(v) == [some |-> TRUE, val |-> v]

NoLive == [some |-> FALSE, val |-> 0, age |-> 0]

NoResp ==
    [op |-> "none", stores |-> {}, force |-> FALSE, failed |-> FALSE,
     error |-> FALSE, sales |-> [s \in Stores |-> None], scanned |-> {},
     calls |-> 0, backfilled |-> {}, raised |-> FALSE]

\* str(cached_val).isdigit(): the decimal string of an integer is all digits
\* exactly when it has no minus sign.
isdigit(val) == val >= 0

is_stale_always(row) == TRUE

\* MonthlySales.is_stale: timezone.now() - calculated_at > timedelta(minutes=30)
is_stale(row) == row.age > StaleSeconds

\* monthly_sales_bulk_api: ms.calculated_at >= fresh_cutoff, with
\* fresh_cutoff = now - timedelta(minutes=30)
fresh_cutoff_ok(row) == row.age <= StaleSeconds

\* quantity_sold is a PositiveIntegerField: the database's CHECK
\* (quantity_sold >= 0) makes update_or_create raise IntegrityError otherwise.
PositiveIntegerField(qty) == qty >= 0

\* redis_client.set(key, value, ex=3600)
redis_set(value) == [val |-> value, ttl |-> MonthlySalesEx]

\* The first pass of both views over the requested stores, in order: the
\* Redis key, then the MonthlySales row, else the store needs a calculation.
\* st = [fast, sales, need, backfilled]
RECURSIVE CacheLookup(_, _, _, _)
CacheLookup(api, order, i, st) ==
    IF i > Len(order) THEN st
    ELSE LET store == order[i]
             cached == st.fast[store]
             row == rows[store]
             fresh == IF api = "monthly_sales_api" THEN ~is_stale(row)
                      ELSE fresh_cutoff_ok(row)
         IN  IF cached.ttl > 0 /\ isdigit(cached.val)
             THEN CacheLookup(api, order, i + 1,
                      [st EXCEPT !.sales[store] = Some(cached.val)])
             ELSE IF row.present /\ fresh
             THEN CacheLookup(api, order, i + 1,
                      [st EXCEPT !.fast[store] = redis_set(row.qty),
                                 !.sales[store] = Some(row.qty),
                                 !.backfilled = @ \cup {store}])
             ELSE CacheLookup(api, order, i + 1,
                      [st EXCEPT !.need = Append(@, store)])

\* The loop of both views over the stores that needed a calculation: write
\* the Redis key and the row, put the quantity in the answer. A quantity the
\* row cannot hold raises out of the loop, and so does the write of the
\* Redis key when Redis is unreachable. monthly_sales_api puts the
\* quantity in the answer last, monthly_sales_bulk_api first.
\* st = [fast, rows, sales, written, raised]
RECURSIVE StoreResults(_, _, _, _, _)
StoreResults(api, need, i, bulk_sales, st) ==
    IF i > Len(need) THEN st
    ELSE LET store == need[i]
             qty == bulk_sales[store]
         IN  IF ~redisUp
             THEN [st EXCEPT !.sales[store] =
                                 IF api = "monthly_sales_api" THEN @ ELSE Some(qty),
                             !.raised = TRUE]
             ELSE IF ~PositiveIntegerField(qty)
             THEN [st EXCEPT !.fast[store] = redis_set(qty),
                             !.sales[store] =
                                 IF api = "monthly_sales_api" THEN @ ELSE Some(qty),
                             !.raised = TRUE]
             ELSE StoreResults(api, need, i + 1, bulk_sales,
                      [st EXCEPT !.fast[store] = redis_set(qty),
                                 !.rows[store] =
                                     [present |-> TRUE, qty |-> qty, age |-> 0],
                                 !.sales[store] = Some(qty),
                                 !.written = @ \cup {store}])

\* The except clause of both views: the rows of the stores that needed a
\* calculation, whatever their age, where there are any.
StaleFallback(need, rws, sales) ==
    [s \in Stores |->
        IF s \in need /\ rws[s].present THEN Some(rws[s].qty) ELSE sales[s]]

\* The last complete live computation stored for each store, after a
\* calculation that stored the stores `written` and wrote the Redis keys of
\* the stores `touched`, a page request of its scan having failed or not.
LiveAfter(written, touched, failed, rws) ==
    [s \in Stores |->
        IF s \in written /\ ~failed
        THEN [some |-> TRUE, val |-> rws[s].qty, age |-> 0]
        ELSE IF s \in touched THEN NoLive
        ELSE live[s]]

\* monthly_sales_api / monthly_sales_bulk_api for the product and the stores
\* S, the request for page `failAt` of the receipt scan (if one is made)
\* failing. The reads of the Redis keys in the first pass are not guarded:
\* with Redis unreachable the first of them raises out of the view.
MonthlySalesRequest(api, S, force_refresh, failAt) ==
    IF ~redisUp /\ ~force_refresh
    THEN /\ failAt = 0
         /\ resp' = [NoResp EXCEPT !.op = api, !.stores = S, !.error = TRUE]
         /\ UNCHANGED <<receipts, fast, rows, live>>
    ELSE
    \E st1 \in {IF ~force_refresh
                THEN CacheLookup(api, SelectSeq(StoreOrder, LAMBDA s : s \in S), 1,
                         [fast |-> fast, sales |-> [s \in Stores |-> None],
                          need |-> <<>>, backfilled |-> {}])
                ELSE [fast |-> fast, sales |-> [s \in Stores |-> None],
                      need |-> SelectSeq(StoreOrder, LAMBDA s : s \in S),
                      backfilled |-> {}]} :
      IF st1.need = <<>>
      THEN /\ failAt = 0
           /\ fast' = st1.fast
           /\ resp' = [op |-> api, stores |-> S, force |-> force_refresh,
                       failed |-> FALSE, error |-> FALSE, sales |-> st1.sales,
                       scanned |-> {}, calls |-> 0,
                       backfilled |-> st1.backfilled, raised |-> FALSE]
           /\ UNCHANGED <<receipts, rows, live>>
      ELSE \E bulk \in {calculate_monthly_sales_bulk(
                            ProductId, Range(st1.need), receipts, failAt)} :
           \E st2 \in {StoreResults(api, st1.need, 1, bulk.results,
                           [fast |-> st1.fast, rows |-> rows, sales |-> st1.sales,
                            written |-> {}, raised |-> FALSE])} :
             /\ fast' = st2.fast
             /\ rows' = st2.rows
             /\ live' = LiveAfter(st2.written,
                            st2.written \cup
                                {s \in Range(st1.need) : st2.fast[s] # st1.fast[s]},
                            bulk.failed, st2.rows)
             /\ resp' = [op |-> api, stores |-> S, force |-> force_refresh,
                         failed |-> bulk.failed, error |-> FALSE,
                         sales |-> IF st2.raised
                                   THEN StaleFallback(Range(st1.need), st2.rows, st2.sales)
                                   ELSE st2.sales,
                         scanned |-> Range(st1.need), calls |-> bulk.calls,
                         backfilled |-> st1.backfilled, raised |-> st2.raised]
             /\ UNCHANGED receipts

monthly_sales_api(S, force_refresh, failAt) ==
    /\ MonthlySalesRequest("monthly_sales_api", S, force_refresh, failAt)
    /\ UNCHANGED notSales

monthly_sales_bulk_api(S, force_refresh, failAt) ==
    /\ MonthlySalesRequest("monthly_sales_bulk_api", S, force_refresh, failAt)
    /\ UNCHANGED notSales

\* sync_all_monthly_sales, Command.handle: one full scan, then the upsert of
\* every (known store, known product) pair of the aggregate and the warming
\* of its Redis key. An empty aggregate ends the command before any write.
sync_all_monthly_sales(failAt) ==
    \E agg \in {_aggregate_sales(receipts, failAt)} :
    \E upserts \in {{s \in Stores : <<korona_id[s], ProductId>> \in DOMAIN agg.sales}} :
        /\ rows' = [s \in Stores |->
                       IF s \in upserts
                       THEN [present |-> TRUE,
                             qty |-> agg.sales[<<korona_id[s], ProductId>>],
                             age |-> 0]
                       ELSE rows[s]]
        /\ fast' = [s \in Stores |->
                       IF s \in upserts /\ redisUp
                       THEN redis_set(agg.sales[<<korona_id[s], ProductId>>])
                       ELSE fast[s]]
        /\ live' = LiveAfter(upserts, upserts, agg.failed, rows')
        /\ resp' = [NoResp EXCEPT !.op = "sync_all_monthly_sales",
                                  !.failed = agg.failed,
                                  !.calls = agg.calls,
                                  !.scanned = upserts]
        /\ UNCHANGED receipts
        /\ UNCHANGED notSales

\* Time passes: the Redis keys run down, the rows grow older.
SalesTick ==
    /\ fast' = [s \in Stores |->
                   IF fast[s].ttl > SalesTickSeconds
                   THEN [fast[s] EXCEPT !.ttl = @ - SalesTickSeconds]
                   ELSE NoKey]
    /\ rows' = [s \in Stores |->
                   IF rows[s].present /\ rows[s].age + SalesTickSeconds <= MaxAge
                   THEN [rows[s] EXCEPT !.age = @ + SalesTickSeconds]
                   ELSE IF rows[s].present THEN [rows[s] EXCEPT !.age = MaxAge]
                   ELSE rows[s]]
    /\ live' = [s \in Stores |->
                   IF live[s].some /\ live[s].age + SalesTickSeconds < CACHE_TTL_SECONDS
                   THEN [live[s] EXCEPT !.age = @ + SalesTickSeconds]
                   ELSE NoLive]
    /\ UNCHANGED <<receipts, resp>>
    /\ UNCHANGED notSales

\* New receipts are booked at Korona.
UpstreamChange ==
    /\ \E data \in Datasets \ {receipts} : receipts' = data
    /\ UNCHANGED <<fast, rows, live, resp>>
    /\ UNCHANGED notSales

InitSales ==
    /\ receipts = ReceiptsA
    /\ fast = [s \in Stores |-> NoKey]
    /\ rows = [s \in Stores |-> NoRow]
    /\ live = [s \in Stores |-> NoLive]
    /\ resp = NoResp

StoreSets == (SUBSET Stores) \ {{}}

NextSales ==
    \/ \E S \in StoreSets, force_refresh \in BOOLEAN, failAt \in FailPoints(receipts) :
           monthly_sales_api(S, force_refresh, failAt)
    \/ \E S \in StoreSets, force_refresh \in BOOLEAN, failAt \in FailPoints(receipts) :
           monthly_sales_bulk_api(S, force_refresh, failAt)
    \/ \E failAt \in FailPoints(receipts) : sync_all_monthly_sales(failAt)
    \/ SalesTick
    \/ UpstreamChange

(***************************************************************************)
(* Product stock: the circuit breaker, the cached fetch, the two writers   *)
(***************************************************************************)

\* Every Store row (sync_stocks maps them all); s3 is not active.
AllStores == Stores \cup {"s3"}

ActiveStores == Stores

\* Store.korona_id of every Store row.
store_korona_id == [s \in AllStores |-> IF s = "s3" THEN "k3" ELSE korona_id[s]]

\* korona_breaker: fail_max and reset_timeout (seconds).
fail_max == 5

reset_timeout == 30

\* The seconds that pass in one step of the stock clock.
StockTickSeconds == 1800

\* One entry of a stock response: the warehouse id ("" when missing, "bad"
\* when it is no UUID) and amount.actual; the other amounts are converted and
\* stored the same way.
Entry(warehouse, actual) == [warehouse |-> warehouse, actual |-> actual]

\* A 204 response (fetch_product_stocks returns None) and a JSON payload.
NonePayload == [null |-> TRUE, results |-> <<>>]

Payload(results) == [null |-> FALSE, results |-> results]

\* The responses Korona may give for the product.
StockResponses ==
    { NonePayload,
      Payload(<<>>),
      Payload(<<Entry("k9", 4)>>),
      Payload(<<Entry("k1", 5)>>),
      Payload(<<Entry("", 1), Entry("bad", 3), Entry("k2", 7), Entry("k3", 2)>>) }

NoStock == [present |-> FALSE, actual |-> 0]

NoCache == [present |-> FALSE, payload |-> NonePayload, ttl |-> 0]

ClosedBreaker == [state |-> "closed", counter |-> 0, remaining |-> 0]

\* How a request that reaches the network can end: a response, a connection
\* error or timeout, or an HTTP error status (raise_for_status): a 4xx, or a
\* 5xx/429 that is still there after the retries of the session's adapter
\* (raise_on_status=False hands the last response back).
NetOutcomes == {"ok", "error", "http_4xx", "http_5xx"}

\* _api_request under @korona_breaker (pybreaker): while the breaker is open
\* and reset_timeout has not elapsed the call fails with CircuitBreakerError
\* and nothing is sent; otherwise the request is sent (as the trial call when
\* the breaker was open). requests.HTTPError is excluded: it counts as a
\* success for the breaker and is raised on. Another failure counts; the
\* one that reaches fail_max, and a failed trial call, open the breaker and
\* raise CircuitBreakerError in place of the error. The count of an open
\* breaker is read by nothing until a success resets it: it is kept at
\* fail_max.
_api_request(br, net) ==
    IF br.state = "open" /\ br.remaining > 0
    THEN [breaker |-> br, result |-> "breaker_error", called |-> FALSE]
    ELSE IF net = "ok"
    THEN [breaker |-> ClosedBreaker, result |-> "ok", called |-> TRUE]
    ELSE IF net \in {"http_4xx", "http_5xx"}
    THEN [breaker |-> ClosedBreaker, result |-> "request_exception", called |-> TRUE]
    ELSE IF br.state = "open" \/ br.counter + 1 >= fail_max
    THEN [breaker |-> [state |-> "open", counter |-> fail_max,
                       remaining |-> reset_timeout],
          result |-> "breaker_error", called |-> TRUE]
    ELSE [breaker |-> [br EXCEPT !.counter = @ + 1],
          result |-> "request_exception", called |-> TRUE]

\* The cached payload counts only if json.loads gives something other than
\* None: a cached 204 ("null") reads as a miss.
CacheUsable(cache) == cache.present /\ ~cache.payload.null

\* fetch_product_stocks(product_id, force_refresh): the Redis key first
\* unless forced, then the API through the breaker; on a RequestException
\* the cached payload if there is one, else the exception is raised on; a
\* CircuitBreakerError is no RequestException and is raised on as it is.
\* The two reads of the Redis key are not guarded: with Redis unreachable
\* they raise redis.ConnectionError; the write after a response is guarded.
\* Returns the way it ends ("ok", "request_exception", "breaker_error",
\* "redis_error"), the payload, and the cache and the breaker after it.
fetch_product_stocks(force_refresh, net) ==
    IF ~force_refresh /\ ~redisUp
    THEN [result |-> "redis_error", payload |-> NonePayload, cache |-> stockCache,
          breaker |-> breaker, called |-> FALSE]
    ELSE IF ~force_refresh /\ CacheUsable(stockCache)
    THEN [result |-> "ok", payload |-> stockCache.payload, cache |-> stockCache,
          breaker |-> breaker, called |-> FALSE]
    ELSE LET call == _api_request(breaker, net)
         IN  IF call.result = "ok"
             THEN [result |-> "ok", payload |-> stockApi,
                   cache |-> IF redisUp
                             THEN [present |-> TRUE, payload |-> stockApi,
                                   ttl |-> CACHE_TTL_SECONDS]
                             ELSE stockCache,
                   breaker |-> call.breaker, called |-> TRUE]
             ELSE IF call.result = "request_exception" /\ ~redisUp
             THEN [result |-> "redis_error", payload |-> NonePayload,
                   cache |-> stockCache, breaker |-> call.breaker,
                   called |-> call.called]
             ELSE IF call.result = "request_exception" /\ CacheUsable(stockCache)
             THEN [result |-> "ok", payload |-> stockCache.payload,
                   cache |-> stockCache, breaker |-> call.breaker,
                   called |-> call.called]
             ELSE [result |-> call.result, payload |-> NonePayload,
                   cache |-> stockCache, breaker |-> call.breaker,
                   called |-> call.called]

\* The stores of `store_map` (by Korona id) a response's entries name; an
\* entry without a warehouse id, with one that is no UUID, or with one that
\* maps to no store of the map is passed over.
RECURSIVE ApplyEntries(_, _, _, _)
ApplyEntries(results, i, store_set, st) ==
    IF i > Len(results) THEN st
    ELSE LET entry == results[i]
             found == {s \in store_set : store_korona_id[s] = entry.warehouse}
         IN  IF entry.warehouse = "" \/ entry.warehouse = "bad" \/ found = {}
             THEN ApplyEntries(results, i + 1, store_set, st)
             ELSE LET store == CHOOSE s \in found : TRUE
                  IN  ApplyEntries(results, i + 1, store_set,
                          [st EXCEPT !.rows[store] =
                                         [present |-> TRUE, actual |-> entry.actual],
                                     !.seen = @ \cup {store}])

\* The delete of the other rows whatever was seen.
AlwaysPrunes(seen_store_ids) == TRUE

\* sync_stocks: "if seen_store_ids:" before the delete of the other rows.
Prunes(seen_store_ids) == seen_store_ids # {}

NoStockResp ==
    [op |-> "none", status |-> "none", result |-> "none",
     answer |-> [s \in AllStores |-> None]]

\* sync_stocks, Command.handle, for the product: fetch (not forced); a
\* RequestException skips the product, a 204 clears its rows, else the
\* entries are upserted and, if any store was seen, the other rows deleted.
sync_stocks(net) ==
    \E f \in {fetch_product_stocks(FALSE, net)} :
    \E st \in {ApplyEntries(f.payload.results, 1, AllStores,
                            [rows |-> stocks, seen |-> {}])} :
        /\ (~f.called) => net = "ok"
        /\ stockCache' = f.cache
        /\ breaker' = f.breaker
        /\ stocks' =
              IF f.result # "ok" THEN stocks
              ELSE IF f.payload.null THEN [s \in AllStores |-> NoStock]
              ELSE IF Prunes(st.seen)
              THEN [s \in AllStores |-> IF s \in st.seen THEN st.rows[s] ELSE NoStock]
              ELSE st.rows
        /\ sresp' = [NoStockResp EXCEPT
                        !.op = "sync_stocks",
                        !.status = IF f.result = "ok" THEN "ok"
                                   ELSE IF f.result = "request_exception" THEN "skipped"
                                   ELSE "error",
                        !.result = f.result]
        /\ UNCHANGED stockApi
        /\ UNCHANGED notStock

\* The ways fetch_product_stocks ends that neither caller handles.
Unhandled == {"breaker_error", "redis_error"}

\* product_stock_api for the product, scope "all" or one store, forced or not.
product_stock_api(scope, force_refresh, net) ==
    \E f \in {fetch_product_stocks(force_refresh, net)} :
    \E api_failed \in {f.result = "request_exception"} :
    \E results \in {IF api_failed THEN <<>> ELSE f.payload.results} :
    \E cached \in {IF api_failed \/ results = <<>>
                   THEN {s \in ActiveStores : stocks[s].present} ELSE {}} :
    \E st \in {ApplyEntries(results, 1,
                   IF scope = "all" THEN ActiveStores ELSE ActiveStores \cap {scope},
                   [rows |-> stocks, seen |-> cached])} :
    \E zeroed \in {IF scope = "all" THEN ActiveStores \ st.seen ELSE {scope} \ st.seen} :
        /\ (~f.called) => net = "ok"
        /\ stockCache' = f.cache
        /\ breaker' = f.breaker
        /\ stocks' =
              IF f.result \in Unhandled THEN stocks
              ELSE [s \in AllStores |->
                       IF s \in zeroed THEN [present |-> TRUE, actual |-> 0]
                       ELSE IF scope = "all" /\ s \notin st.seen THEN NoStock
                       ELSE st.rows[s]]
        /\ sresp' = [op |-> "product_stock_api",
                     status |-> IF f.result \in Unhandled THEN "error" ELSE "ok",
                     result |-> f.result,
                     answer |-> [s \in AllStores |->
                                    IF f.result \in Unhandled THEN None
                                    ELSE IF s \in zeroed THEN Some(0)
                                    ELSE IF s \in st.seen THEN Some(st.rows[s].actual)
                                    ELSE None]]
        /\ UNCHANGED stockApi
        /\ UNCHANGED notStock

\* Time passes: the cached payload and the breaker's timeout run down.
StockTick ==
    /\ stockCache' = IF stockCache.present /\ stockCache.ttl > StockTickSeconds
                     THEN [stockCache EXCEPT !.ttl = @ - StockTickSeconds]
                     ELSE NoCache
    /\ breaker' = IF breaker.remaining > StockTickSeconds
                  THEN [breaker EXCEPT !.remaining = @ - StockTickSeconds]
                  ELSE [breaker EXCEPT !.remaining = 0]
    /\ UNCHANGED <<stockApi, stocks, sresp>>
    /\ UNCHANGED notStock

\* The stock at Korona changes.
StockUpstreamChange ==
    /\ \E r \in StockResponses \ {stockApi} : stockApi' = r
    /\ UNCHANGED <<stockCache, stocks, breaker, sresp>>
    /\ UNCHANGED notStock

InitStock ==
    /\ stockApi = Payload(<<Entry("k1", 5)>>)
    /\ stockCache = NoCache
    /\ stocks = [s \in AllStores |-> NoStock]
    /\ breaker = ClosedBreaker
    /\ sresp = NoStockResp

Scopes == {"all"} \cup AllStores

NextStock ==
    \/ \E net \in NetOutcomes : sync_stocks(net)
    \/ \E scope \in Scopes, force_refresh \in BOOLEAN, net \in NetOutcomes :
           product_stock_api(scope, force_refresh, net)
    \/ StockTick
    \/ StockUpstreamChange

(***************************************************************************)
(* The catalog: sync_stores and load_products (sync_catalog)               *)
(***************************************************************************)

\* The Korona ids a Store row can have, and the product numbers.
StoreIds == {"k1", "k2", "k3", "k4"}

ProductNumbers == {1, 2}

\* One organizational unit as Korona serves it: id ("" when missing, "bad"
\* when it is no UUID), name and active; the other fields are copied the
\* same way as name.
OrgUnit(id, name, active) == [id |-> id, name |-> name, active |-> active]

\* One product as Korona serves it: id, number (a string after
\* str(...).strip(): "" when missing, "x" when it is no number) and name.
ProductItem(id, number, name) == [id |-> id, number |-> number, name |-> name]

\* The lists Korona may serve for organizationalUnits.
StoreFeeds ==
    { <<>>,
      <<OrgUnit("k1", "A", TRUE), OrgUnit("k2", "A", TRUE)>>,
      <<OrgUnit("k1", "B", TRUE), OrgUnit("k4", "A", TRUE)>>,
      <<OrgUnit("", "A", TRUE), OrgUnit("bad", "A", TRUE), OrgUnit("k3", "B", FALSE)>>,
      <<OrgUnit("bad", "A", TRUE)>> }

\* The lists Korona may serve for products.
ProductFeeds ==
    { <<>>,
      <<ProductItem("u1", "1", "P"), ProductItem("u2", "2", "Q")>>,
      <<ProductItem("u1", "", "P"), ProductItem("u2", "x", "Q"),
        ProductItem("u1", "1", "Q")>>,
      <<ProductItem("bad", "2", "P")>>,
      <<ProductItem("u1", "1", "")>> }

NoStoreRow == [present |-> FALSE, name |-> "", active |-> FALSE]

NoProductRow == [present |-> FALSE, name |-> "", korona_id |-> ""]

\* UUID(str(raw)) raises ValueError.
InvalidUUID(raw) == raw = "bad"

\* int(number_raw): the number, or 0 for a ValueError (no product has the
\* number 0 here).
int(number_raw) ==
    IF number_raw = "1" THEN 1 ELSE IF number_raw = "2" THEN 2 ELSE 0

\* iter_paginated(path) made into a list: page 1, 2, ... through
\* _api_request until a page without items; `items` fit one page, so the
\* request of page 1 (net1) is followed by one of page 2 (net2) when page 1
\* had items. An exception of either request is raised on.
iter_paginated(items, br, net1, net2) ==
    LET first == _api_request(br, net1)
        second == _api_request(first.breaker, net2)
    IN  IF first.result # "ok"
        THEN [result |-> first.result, items |-> <<>>, breaker |-> first.breaker,
              called |-> <<first.called, FALSE>>]
        ELSE IF items = <<>>
        THEN [result |-> "ok", items |-> <<>>, breaker |-> first.breaker,
              called |-> <<first.called, FALSE>>]
        ELSE [result |-> second.result,
              items |-> IF second.result = "ok" THEN items ELSE <<>>,
              breaker |-> second.breaker,
              called |-> <<first.called, second.called>>]

\* sync_stores: the stores no longer returned.
AllSeen(existing, seen_ids) == {}

missing_ids(existing, seen_ids) == existing \ seen_ids

\* sync_stores, "for item in stores_data": an item without an id or with one
\* that is no UUID is passed over, the others are upserted by korona_id.
RECURSIVE UpsertStores(_, _, _)
UpsertStores(stores_data, i, st) ==
    IF i > Len(stores_data) THEN st
    ELSE LET item == stores_data[i]
         IN  IF item.id = "" \/ InvalidUUID(item.id)
             THEN UpsertStores(stores_data, i + 1, st)
             ELSE UpsertStores(stores_data, i + 1,
                      [rows |-> [st.rows EXCEPT ![item.id] =
                                    [present |-> TRUE, name |-> item.name,
                                     active |-> item.active]],
                       seen |-> st.seen \cup {item.id},
                       created |-> st.created + (IF st.rows[item.id].present THEN 0 ELSE 1),
                       updated |-> st.updated + (IF st.rows[item.id].present THEN 1 ELSE 0)])

\* The Store table after the loop and the deactivation of the missing ones.
StoresAfter(table, stores_data) ==
    LET st == UpsertStores(stores_data, 1,
                  [rows |-> table, seen |-> {}, created |-> 0, updated |-> 0])
        missing == missing_ids({k \in StoreIds : table[k].present}, st.seen)
    IN  [st EXCEPT !.rows = [k \in StoreIds |->
                                IF k \in missing THEN [st.rows[k] EXCEPT !.active = FALSE]
                                ELSE st.rows[k]]]

\* load_products, _save_to_db: a row without number or name, or with a
\* number that is no integer, is passed over; an id that is no UUID is left
\* out of the defaults; the others are upserted by number.
RECURSIVE _save_to_db(_, _, _)
_save_to_db(products, i, st) ==
    IF i > Len(products) THEN st
    ELSE LET row == products[i]
             number == int(row.number)
             old == st.rows[number]
         IN  IF row.number = "" \/ row.name = "" \/ number = 0
             THEN _save_to_db(products, i + 1, st)
             ELSE _save_to_db(products, i + 1,
                      [rows |-> [st.rows EXCEPT ![number] =
                                    [present |-> TRUE, name |-> row.name,
                                     korona_id |-> IF row.id = "" \/ InvalidUUID(row.id)
                                                   THEN old.korona_id ELSE row.id]],
                       created |-> st.created + (IF old.present THEN 0 ELSE 1),
                       updated |-> st.updated + (IF old.present THEN 1 ELSE 0)])

\* The report of a run, and the log with it as the newest of two.
Report(op, status, created, updated) ==
    [op |-> op, status |-> status, created |-> created, updated |-> updated]

Logged(report) ==
    IF syncLog = <<>> THEN <<report>> ELSE <<syncLog[Len(syncLog)], report>>

\* The requests a run makes end as the network decides when they are sent.
SentOrOk(f, net1, net2) ==
    /\ (~f.called[1]) => net1 = "ok"
    /\ (~f.called[2]) => net2 = "ok"

\* sync_stores, Command.handle.
sync_stores(net1, net2) ==
    \E f \in {iter_paginated(korona.organizationalUnits, breaker, net1, net2)} :
    \E st \in {StoresAfter(storeRows, f.items)} :
        /\ SentOrOk(f, net1, net2)
        /\ breaker' = f.breaker
        /\ storeRows' = IF f.result = "ok" /\ f.items # <<>> THEN st.rows ELSE storeRows
        /\ syncLog' =
              Logged(IF f.result # "ok"
                     THEN Report("sync_stores", "error", 0, 0)
                     ELSE IF f.items = <<>>
                     THEN Report("sync_stores", "no_data", 0, 0)
                     ELSE Report("sync_stores", "ok",
                                 st.created, st.updated))
        /\ UNCHANGED <<korona, productRows>>
        /\ UNCHANGED <<stockApi, stockCache, stocks, sresp>>
        /\ UNCHANGED <<refreshVars, salesVars, redisUp, aggOut, needed, apiCalls, txn, scan, listVars>>

\* load_products, Command.handle (the CSV file is no row of the database).
load_products(net1, net2) ==
    \E f \in {iter_paginated(korona.products, breaker, net1, net2)} :
    \E st \in {_save_to_db(f.items, 1,
                   [rows |-> productRows, created |-> 0, updated |-> 0])} :
        /\ SentOrOk(f, net1, net2)
        /\ breaker' = f.breaker
        /\ productRows' = IF f.result = "ok" /\ f.items # <<>> THEN st.rows ELSE productRows
        /\ syncLog' =
              Logged(IF f.result # "ok"
                     THEN Report("load_products", "error", 0, 0)
                     ELSE IF f.items = <<>>
                     THEN Report("load_products", "no_data", 0, 0)
                     ELSE Report("load_products", "ok",
                                 st.created, st.updated))
        /\ UNCHANGED <<korona, storeRows>>
        /\ UNCHANGED <<stockApi, stockCache, stocks, sresp>>
        /\ UNCHANGED <<refreshVars, salesVars, redisUp, aggOut, needed, apiCalls, txn, scan, listVars>>

\* The catalog at Korona changes: the reports kept are of runs against the
\* catalog as it is.
KoronaChange ==
    /\ \/ \E feed \in StoreFeeds \ {korona.organizationalUnits} :
              korona' = [korona EXCEPT !.organizationalUnits = feed]
       \/ \E feed \in ProductFeeds \ {korona.products} :
              korona' = [korona EXCEPT !.products = feed]
    /\ syncLog' = <<>>
    /\ UNCHANGED <<storeRows, productRows>>
    /\ UNCHANGED <<refreshVars, salesVars, stockVars, redisUp, aggOut, needed,
                   apiCalls, txn, scan, listVars>>

\* The Store rows the other parts work with (s1, s2 active, s3 not), no
\* product loaded yet.
InitCatalog ==
    /\ korona = [organizationalUnits |->
                     <<OrgUnit("k1", "A", TRUE), OrgUnit("k2", "A", TRUE)>>,
                 products |->
                     <<ProductItem("u1", "1", "P"), ProductItem("u2", "2", "Q")>>]
    /\ storeRows = [k \in StoreIds |->
                       IF k \in {"k1", "k2"}
                       THEN [present |-> TRUE, name |-> "A", active |-> TRUE]
                       ELSE IF k = "k3"
                       THEN [present |-> TRUE, name |-> "A", active |-> FALSE]
                       ELSE NoStoreRow]
    /\ productRows = [n \in ProductNumbers |-> NoProductRow]
    /\ syncLog = <<>>

\* No transaction open.
NoTxn == [open |-> FALSE, results |-> <<>>, i |-> 0,
          rows |-> [s \in AllStores |-> NoStock], seen |-> {}]

\* No monthly need computed yet.
NoNeed == [total_quantity |-> 1, days_period |-> 1, monthly_needed |-> 0]

(***************************************************************************)
(* The receipt aggregators as functions of the receipts                    *)
(***************************************************************************)

\* calculate_monthly_sales: the items of one receipt, for our product.
RECURSIVE SingleItemsAnyProduct(_, _, _)
SingleItemsAnyProduct(items, i, product_id) ==
    IF i > Len(items) THEN 0
    ELSE items[i].quantity + SingleItemsAnyProduct(items, i + 1, product_id)

RECURSIVE SingleItems(_, _, _)
SingleItems(items, i, product_id) ==
    IF i > Len(items) THEN 0
    ELSE (IF items[i].product = product_id THEN items[i].quantity ELSE 0)
         + SingleItems(items, i + 1, product_id)

voided_only(receipt) == receipt.voided

\* calculate_monthly_sales: receipt.get('voided') or receipt.get('cancelled')
voided_or_cancelled(receipt) == receipt.voided \/ receipt.cancelled

\* calculate_monthly_sales: the receipts of one page.
RECURSIVE SingleReceipts(_, _, _, _, _)
SingleReceipts(results, i, product_id, store_id, total_qty) ==
    IF i > Len(results) THEN total_qty
    ELSE LET receipt == results[i]
         IN  IF voided_or_cancelled(receipt)
             THEN SingleReceipts(results, i + 1, product_id, store_id, total_qty)
             ELSE IF receipt.organizationalUnit # store_id
             THEN SingleReceipts(results, i + 1, product_id, store_id, total_qty)
             ELSE SingleReceipts(results, i + 1, product_id, store_id,
                      total_qty + SingleItems(receipt.items, 1, product_id))

\* calculate_monthly_sales: the page loop; a failed request breaks out of it.
RECURSIVE SinglePages(_, _, _, _, _, _)
SinglePages(data, failAt, page, product_id, store_id, total_qty) ==
    IF page = failAt
    THEN [total |-> total_qty, calls |-> page, failed |-> TRUE]
    ELSE LET results == IF page <= Len(data) THEN data[page] ELSE <<>>
             summed == SingleReceipts(results, 1, product_id, store_id, total_qty)
         IN  IF results = <<>>
             THEN [total |-> total_qty, calls |-> page, failed |-> FALSE]
             ELSE IF page >= Len(data)
             THEN [total |-> summed, calls |-> page, failed |-> FALSE]
             ELSE SinglePages(data, failAt, page + 1, product_id, store_id, summed)

\* calculate_monthly_sales(product_id, store_id, days=30) over the receipts
\* `data`, its page `failAt` failing. Quantities are whole numbers here, so
\* int(total_qty) is the sum itself.
calculate_monthly_sales(product_id, store_id, data, failAt) ==
    SinglePages(data, failAt, 1, product_id, store_id, 0)

\* sync_monthly_sales, Command.fetch_and_aggregate_sales: the same loops as
\* Command._aggregate_sales (flagged receipts and receipts without a store
\* are passed over, only quantities > 0 count, a failed request breaks out).
fetch_and_aggregate_sales(data, failAt) ==
    AggregatePages(data, failAt, 1, [k \in {} |-> 0])

\* The lists of items and the receipts the aggregators are applied to.
AggItemLists ==
    { <<Item("p", 2)>>, <<Item("p", -1)>>, <<Item("p", 0)>>, <<Item("q", 1)>>,
      <<Item("p", 2), Item("p", -1)>>, <<Item("p", 2), Item("q", 1)>> }

AggReceipts ==
    { Receipt(ou, flags[1], flags[2], items) :
        ou \in {"k1", "k2", "k9"},
        flags \in {<<FALSE, FALSE>>, <<TRUE, FALSE>>, <<FALSE, TRUE>>},
        items \in AggItemLists }

\* One page of one receipt, or two such pages.
AggInputs ==
    {<< <<r>> >> : r \in AggReceipts}
        \cup {<< <<r[1]>>, <<r[2]>> >> : r \in AggReceipts \X AggReceipts}

NoAggregate == [fn |-> "none", stores |-> {}, failAt |-> 0, out |-> <<>>]

\* What aggregator `fn` computes for the stores `S` over `data`.
Aggregate(fn, S, data, failAt) ==
    CASE fn = "calculate_monthly_sales" ->
             [s \in S |->
                 calculate_monthly_sales(ProductId, korona_id[s], data, failAt).total]
      [] fn = "calculate_monthly_sales_bulk" ->
             calculate_monthly_sales_bulk(ProductId, S, data, failAt).results
      [] fn = "_aggregate_sales" -> _aggregate_sales(data, failAt).sales
      [] fn = "fetch_and_aggregate_sales" -> fetch_and_aggregate_sales(data, failAt).sales

Scan(fn, S, failAt) ==
    /\ aggOut' = [fn |-> fn, stores |-> S, failAt |-> failAt,
                  out |-> Aggregate(fn, S, receipts, failAt)]
    /\ UNCHANGED notAggregate

ScanSingle(s, failAt) == Scan("calculate_monthly_sales", {s}, failAt)

ScanBulk(S, failAt) == Scan("calculate_monthly_sales_bulk", S, failAt)

ScanAll(failAt) == Scan("_aggregate_sales", {}, failAt)

ScanSyncMonthly(failAt) == Scan("fetch_and_aggregate_sales", {}, failAt)

(***************************************************************************)
(* A receipt scan page by page                                             *)
(***************************************************************************)

\* The windows of receipts a scan is followed over: no receipt, one page,
\* two pages, three pages.
ScanWindows ==
    {<<>>, <<FirstPage>>, ReceiptsA, ReceiptsB, ReceiptsA \o <<FirstPage>>}

\* The scans and the stores they are called for.
ScanCalls ==
    {<<"calculate_monthly_sales", {s}>> : s \in Stores}
        \cup {<<"calculate_monthly_sales_bulk", S>> : S \in StoreSets}
        \cup {<<"_aggregate_sales", {}>>, <<"fetch_and_aggregate_sales", {}>>}

NoScan ==
    [fn |-> "none", stores |-> {}, running |-> FALSE, failed |-> FALSE,
     page |-> 1, requested |-> <<>>, seen |-> <<>>, acc |-> <<>>]

\* What Korona answers for one page of the window: the receipts of the page
\* (none past the last one) and pagesTotal.
ReceiptsPage(data, page) ==
    [results |-> IF page <= Len(data) THEN data[page] ELSE <<>>,
     pagesTotal |-> Len(data)]

\* "if page >= data.get('pagesTotal', 1): break"
LastPage(page, pagesTotal) == page >= pagesTotal

\* The sums of scan `fn` after the receipts of one more page.
PageSums(fn, S, results, acc) ==
    CASE fn = "calculate_monthly_sales" ->
             [s \in S |-> SingleReceipts(results, 1, ProductId, korona_id[s], acc[s])]
      [] fn = "calculate_monthly_sales_bulk" ->
             BulkReceipts(results, 1, ProductId,
                 [k \in {korona_id[s] : s \in S} |-> CHOOSE s \in S : korona_id[s] = k],
                 acc)
      [] OTHER -> AggregateReceipts(results, 1, acc)

notScan ==
    <<refreshVars, salesVars, stockVars, redisUp, aggOut, needed, apiCalls, txn,
      catalogVars, listVars>>

\* A scan starts: page = 1, nothing summed.
PageScanStart(fn, S) ==
    /\ ~scan.running
    /\ scan' = [fn |-> fn, stores |-> S, running |-> TRUE, failed |-> FALSE,
                page |-> 1, requested |-> <<>>, seen |-> <<>>,
                acc |-> [s \in S |-> 0]]
    /\ UNCHANGED notScan

\* One turn of "while True": the request of the page, which fails (the
\* except clause breaks) or is answered; an empty page breaks, else its
\* receipts are gone through once and the loop breaks after the last page
\* or goes on with page + 1.
PageScanRequest(ok) ==
    /\ scan.running
    /\ \E answer \in {ReceiptsPage(receipts, scan.page)} :
           scan' =
               IF ~ok
               THEN [scan EXCEPT !.requested = Append(@, scan.page),
                                 !.running = FALSE, !.failed = TRUE]
               ELSE IF answer.results = <<>>
               THEN [scan EXCEPT !.requested = Append(@, scan.page),
                                 !.running = FALSE]
               ELSE [scan EXCEPT
                        !.requested = Append(@, scan.page),
                        !.seen = @ \o [i \in 1 .. Len(answer.results) |->
                                          <<scan.page, i>>],
                        !.acc = PageSums(scan.fn, scan.stores, answer.results, @),
                        !.running = ~LastPage(scan.page, answer.pagesTotal),
                        !.page = IF LastPage(scan.page, answer.pagesTotal)
                                 THEN @ ELSE @ + 1]
    /\ UNCHANGED notScan

NextScan ==
    \/ \E call \in ScanCalls : PageScanStart(call[1], call[2])
    \/ \E ok \in BOOLEAN : PageScanRequest(ok)

(***************************************************************************)
(* The weekly order list: its items and its finalization                   *)
(***************************************************************************)

\* The item requests of users who are not staff that are followed.
Requests == {"r1", "r2"}

\* The largest on_shelf count that is followed.
MaxShelf == 2

\* The store of the list.
ListStore == "s1"

NoItem == [present |-> FALSE, on_shelf |-> 0, system_stock |-> 0]

NoRequest == [pc |-> "idle", op |-> "none", status |-> 0, retry |-> FALSE]

InitLists ==
    /\ weekly = [finalized |-> FALSE, item |-> NoItem]
    /\ itemReq = [r \in Requests |-> NoRequest]

notLists ==
    <<refreshVars, salesVars, redisUp, aggOut, needed, apiCalls, txn, catalogVars,
      scan>>

\* The first lines of weekly_add_item_api, weekly_update_item_api and
\* weekly_delete_item_api for a user who is not staff: the list is read and
\* a finalized one answered with 403.
ItemRequestCheck(r, op) ==
    /\ itemReq[r].pc \in {"idle", "done"}
    /\ itemReq' = [itemReq EXCEPT ![r] =
           IF weekly.finalized
           THEN [@ EXCEPT !.pc = "done", !.op = op, !.status = 403]
           ELSE [@ EXCEPT !.pc = "checked", !.op = op, !.status = 0]]
    /\ UNCHANGED <<weekly, stockVars>>
    /\ UNCHANGED notLists

\* weekly_add_item_api, the system stock of a new item: amount.actual of the
\* first entry of the list's store, 0 without one.
RECURSIVE SystemStock(_, _)
SystemStock(results, i) ==
    IF i > Len(results) THEN 0
    ELSE IF results[i].warehouse = store_korona_id[ListStore] THEN results[i].actual
    ELSE SystemStock(results, i + 1)

\* weekly_add_item_api after the check: an item of the product has its
\* on_shelf raised by one; else the stock is fetched (forced) and the item
\* created with it, with the ProductStock row's value and a retry in 45
\* seconds on a RequestException; the breaker's error is not caught.
ItemAdd(r, net) ==
    /\ itemReq[r].pc = "checked" /\ itemReq[r].op = "add"
    /\ IF weekly.item.present
       THEN /\ net = "ok"
            /\ weekly.item.on_shelf < MaxShelf
            /\ weekly' = [weekly EXCEPT !.item.on_shelf = @ + 1]
            /\ itemReq' = [itemReq EXCEPT ![r] = [@ EXCEPT !.pc = "done", !.status = 200]]
            /\ UNCHANGED <<stockCache, breaker>>
       ELSE \E f \in {fetch_product_stocks(TRUE, net)} :
              /\ (~f.called) => net = "ok"
              /\ stockCache' = f.cache
              /\ breaker' = f.breaker
              /\ weekly' =
                    IF f.result \in Unhandled THEN weekly
                    ELSE [weekly EXCEPT !.item =
                             [present |-> TRUE, on_shelf |-> 1,
                              system_stock |->
                                  IF f.result = "ok"
                                  THEN SystemStock(f.payload.results, 1)
                                  ELSE stocks[ListStore].actual]]
              /\ itemReq' = [itemReq EXCEPT ![r] =
                    [@ EXCEPT !.pc = "done",
                              !.status = IF f.result \in Unhandled THEN 500 ELSE 200,
                              !.retry = @ \/ f.result = "request_exception"]]
    /\ UNCHANGED <<stockApi, stocks, sresp>>
    /\ UNCHANGED notLists

\* _retry_worker, started by the timer of weekly_add_item_api: a forced
\* fetch; with an entry of the list's store the ProductStock row is upserted
\* and the item's system_stock set, if the item is still there.
RetryWorker(r, net) ==
    /\ itemReq[r].retry
    /\ \E f \in {fetch_product_stocks(TRUE, net)} :
       \E found \in {f.result = "ok"
                        /\ \E i \in 1 .. Len(f.payload.results) :
                               f.payload.results[i].warehouse = store_korona_id[ListStore]} :
           /\ (~f.called) => net = "ok"
           /\ stockCache' = f.cache
           /\ breaker' = f.breaker
           /\ stocks' = IF found
                        THEN [stocks EXCEPT ![ListStore] =
                                 [present |-> TRUE,
                                  actual |-> SystemStock(f.payload.results, 1)]]
                        ELSE stocks
           /\ weekly' = IF found /\ weekly.item.present
                        THEN [weekly EXCEPT !.item.system_stock =
                                 SystemStock(f.payload.results, 1)]
                        ELSE weekly
    /\ itemReq' = [itemReq EXCEPT ![r].retry = FALSE]
    /\ UNCHANGED <<stockApi, sresp>>
    /\ UNCHANGED notLists

\* weekly_update_item_api after the check: 404 without the item, else
\* on_shelf = max(0, int(data["on_shelf"])) is saved.
ItemUpdate(r, on_shelf) ==
    /\ itemReq[r].pc = "checked" /\ itemReq[r].op = "update"
    /\ IF weekly.item.present
       THEN /\ weekly' = [weekly EXCEPT !.item.on_shelf = on_shelf]
            /\ itemReq' = [itemReq EXCEPT ![r] = [@ EXCEPT !.pc = "done", !.status = 200]]
       ELSE /\ on_shelf = 0
            /\ UNCHANGED weekly
            /\ itemReq' = [itemReq EXCEPT ![r] = [@ EXCEPT !.pc = "done", !.status = 404]]
    /\ UNCHANGED stockVars
    /\ UNCHANGED notLists

\* weekly_delete_item_api after the check: 404 without the item, else it is
\* deleted.
ItemDelete(r) ==
    /\ itemReq[r].pc = "checked" /\ itemReq[r].op = "delete"
    /\ weekly' = [weekly EXCEPT !.item = NoItem]
    /\ itemReq' = [itemReq EXCEPT ![r] =
           [@ EXCEPT !.pc = "done",
                     !.status = IF weekly.item.present THEN 200 ELSE 404]]
    /\ UNCHANGED stockVars
    /\ UNCHANGED notLists

\* weekly_finalize_list (staff): finalized_at is set unless it is set.
weekly_finalize_list ==
    /\ ~weekly.finalized
    /\ weekly' = [weekly EXCEPT !.finalized = TRUE]
    /\ UNCHANGED <<itemReq, stockVars>>
    /\ UNCHANGED notLists

\* weekly_unfinalize_list (staff): finalized_at and finalized_by are cleared.
weekly_unfinalize_list ==
    /\ weekly.finalized
    /\ weekly' = [weekly EXCEPT !.finalized = FALSE]
    /\ UNCHANGED <<itemReq, stockVars>>
    /\ UNCHANGED notLists

NextLists ==
    \/ \E r \in Requests, op \in {"add", "update", "delete"} : ItemRequestCheck(r, op)
    \/ \E r \in Requests, net \in NetOutcomes : ItemAdd(r, net)
    \/ \E r \in Requests, net \in NetOutcomes : RetryWorker(r, net)
    \/ \E r \in Requests, on_shelf \in 0 .. MaxShelf : ItemUpdate(r, on_shelf)
    \/ \E r \in Requests : ItemDelete(r)
    \/ weekly_finalize_list
    \/ weekly_unfinalize_list

InitAggregate ==
    /\ InitRefresh /\ InitStock /\ redisUp = TRUE
    /\ receipts \in AggInputs
    /\ fast = [s \in Stores |-> NoKey]
    /\ rows = [s \in Stores |-> NoRow]
    /\ live = [s \in Stores |-> NoLive]
    /\ resp = NoResp
    /\ aggOut = NoAggregate
    /\ needed = NoNeed
    /\ apiCalls = <<>>
    /\ txn = NoTxn
    /\ InitCatalog
    /\ scan = NoScan
    /\ InitLists

NextAggregate ==
    \/ \E s \in Stores, failAt \in FailPoints(receipts) : ScanSingle(s, failAt)
    \/ \E S \in StoreSets, failAt \in FailPoints(receipts) : ScanBulk(S, failAt)
    \/ \E failAt \in FailPoints(receipts) : ScanAll(failAt)
    \/ \E failAt \in FailPoints(receipts) : ScanSyncMonthly(failAt)

SpecAggregate == InitAggregate /\ [][NextAggregate]_vars

(***************************************************************************)
(* sync_monthly_sales: the monthly need, in decimal arithmetic             *)
(***************************************************************************)

\* decimal.getcontext().prec, the significant digits a result keeps.
DecimalPrec == 28

\* The largest total quantity and the longest window that are tried.
MaxTotal == 12

MaxDays == 60

\* A decimal.Decimal: the digits of its coefficient (none for zero, no
\* leading zero) and the number of digits after the point.
RECURSIVE NatDigits(_)
NatDigits(n) == IF n = 0 THEN <<>> ELSE Append(NatDigits(n \div 10), n % 10)

RECURSIVE DigitsNat(_)
DigitsNat(digits) ==
    IF digits = <<>> THEN 0
    ELSE 10 * DigitsNat(SubSeq(digits, 1, Len(digits) - 1)) + digits[Len(digits)]

\* The coefficient plus one.
RECURSIVE Inc(_)
Inc(digits) ==
    IF digits = <<>> THEN <<1>>
    ELSE IF digits[Len(digits)] < 9
    THEN [digits EXCEPT ![Len(digits)] = @ + 1]
    ELSE Append(Inc(SubSeq(digits, 1, Len(digits) - 1)), 0)

\* The coefficient times three, `carry` coming in from the right.
RECURSIVE Times3(_, _)
Times3(digits, carry) ==
    IF digits = <<>> THEN NatDigits(carry)
    ELSE LET v == 3 * digits[Len(digits)] + carry
         IN  Append(Times3(SubSeq(digits, 1, Len(digits) - 1), v \div 10), v % 10)

\* ROUND_HALF_EVEN, the rounding of the default context: the coefficient
\* without its last k digits (k >= 1, fewer than its length), one added when
\* the dropped digits are more than half a unit, or exactly half and the
\* last kept digit is odd.
RoundDrop(digits, k) ==
    LET kept == SubSeq(digits, 1, Len(digits) - k)
        first == digits[Len(digits) - k + 1]
        rest == \E i \in (Len(digits) - k + 2) .. Len(digits) : digits[i] # 0
        odd == kept # <<>> /\ kept[Len(kept)] % 2 = 1
    IN  IF first > 5 \/ (first = 5 /\ (rest \/ odd)) THEN Inc(kept) ELSE kept

\* Context._fix: a coefficient of more than DecimalPrec digits is rounded
\* to DecimalPrec digits.
Fix(dec) ==
    IF Len(dec.digits) <= DecimalPrec THEN dec
    ELSE LET k == Len(dec.digits) - DecimalPrec
             rounded == RoundDrop(dec.digits, k)
         IN  IF Len(rounded) > DecimalPrec
             THEN [digits |-> SubSeq(rounded, 1, DecimalPrec), scale |-> dec.scale - k - 1]
             ELSE [digits |-> rounded, scale |-> dec.scale - k]

\* Decimal / int: the quotient digit by digit; it stops when the division
\* comes out even, else one digit past DecimalPrec, where a remainder left
\* over makes a last digit 0 or 5 a 1 or 6 so that the rounding sees it.
RECURSIVE LongDivision(_, _, _, _)
LongDivision(r, d, digits, scale) ==
    IF r = 0 THEN [digits |-> digits, scale |-> scale]
    ELSE IF Len(digits) > DecimalPrec
    THEN [digits |-> IF digits[Len(digits)] % 5 = 0 THEN Inc(digits) ELSE digits,
          scale |-> scale]
    ELSE LET digit == (10 * r) \div d
         IN  LongDivision((10 * r) % d, d,
                 IF digits = <<>> /\ digit = 0 THEN <<>> ELSE Append(digits, digit),
                 scale + 1)

Divide(total_quantity, days_period) ==
    Fix(LongDivision(total_quantity % days_period, days_period,
                     NatDigits(total_quantity \div days_period), 0))

\* Decimal * 30
Times30(dec) == Fix([digits |-> Append(Times3(dec.digits, 0), 0), scale |-> dec.scale])

\* int(x.quantize(Decimal("1"))): x rounded to no digit after the point.
QuantizeInt(dec) ==
    IF dec.scale = 0 THEN DigitsNat(dec.digits)
    ELSE LET pad == IF Len(dec.digits) > dec.scale THEN 0
                    ELSE dec.scale + 1 - Len(dec.digits)
             padded == [i \in 1 .. pad |-> 0] \o dec.digits
         IN  DigitsNat(RoundDrop(padded, dec.scale))

Max(a, b) == IF a >= b THEN a ELSE b

\* Command.calculate_monthly_needed for one (store, product):
\* daily_avg = total_quantity / days_period
\* monthly_qty = int((daily_avg * 30).quantize(Decimal("1")))
\* max(1, monthly_qty)
calculate_monthly_needed(total_quantity, days_period) ==
    Max(1, QuantizeInt(Times30(Divide(total_quantity, days_period))))

CalculateMonthlyNeeded ==
    /\ needed' = [needed EXCEPT
                     !.monthly_needed =
                         calculate_monthly_needed(needed.total_quantity,
                                                  needed.days_period)]
    /\ UNCHANGED notNeeded

InitNeeded ==
    /\ InitRefresh /\ InitSales /\ InitStock /\ redisUp = TRUE
    /\ aggOut = NoAggregate
    /\ needed \in [total_quantity : 1 .. MaxTotal, days_period : 1 .. MaxDays,
                   monthly_needed : {0}]
    /\ apiCalls = <<>>
    /\ txn = NoTxn
    /\ InitCatalog
    /\ scan = NoScan
    /\ InitLists

NextNeeded == CalculateMonthlyNeeded

SpecNeeded == InitNeeded /\ [][NextNeeded]_vars

\* Redis becomes unreachable, or reachable again; its keys stay as they are.
RedisFlip ==
    /\ redisUp' = ~redisUp
    /\ UNCHANGED <<refreshVars, salesVars, stockVars, aggOut, needed, apiCalls, txn, catalogVars, scan, listVars>>

InitRedis == redisUp = TRUE

Init ==
    /\ InitRefresh /\ InitSales /\ InitStock /\ InitRedis
    /\ aggOut = NoAggregate
    /\ needed = NoNeed
    /\ apiCalls = <<>>
    /\ txn = NoTxn
    /\ InitCatalog
    /\ scan = NoScan
    /\ InitLists

SpecRefresh == Init /\ [][NextRefresh]_vars

SpecSales == Init /\ [][NextSales]_vars

SpecStock == Init /\ [][NextStock]_vars

\* The two monthly-sales views and the stock operations with Redis outages.
\* The two parts share nothing but Redis: a behaviour follows one of them.
NextOutage ==
    \/ RedisFlip
    \/ /\ InitStock
       /\ \E S \in StoreSets, force_refresh \in BOOLEAN, failAt \in FailPoints(receipts) :
              \/ monthly_sales_api(S, force_refresh, failAt)
              \/ monthly_sales_bulk_api(S, force_refresh, failAt)
    \/ InitStock /\ SalesTick
    \/ InitSales /\ NextStock

SpecOutage == Init /\ [][NextOutage]_vars

(***************************************************************************)
(* Claims about the global refresh job                                     *)
(***************************************************************************)

\* The worker of job j is at or inside one of its sync steps.
InSyncSteps(j) ==
    jobPc[j] \in {"stores_msg", "sync_stores", "stores_done",
                  "products_msg", "load_products", "products_done"}

\* C1: of two concurrent start requests issued while no refresh is in
\* progress, exactly one returns a job id and the other the conflict signal
\* (stated for the states where both have returned and no worker has got
\* past its first step: nothing has been released and no lease has run out).
C1_ExactlyOneStarts ==
    ( /\ \A j \in Jobs : reqPc[j] = "done"
      /\ \A j \in Jobs : jobPc[j] \in {"none", "setnx"} )
    => /\ Cardinality({j \in Jobs : reqResult[j] = "job"}) = 1
       /\ Cardinality({j \in Jobs : reqResult[j] = "conflict"}) = 1

\* C2: a worker that did not acquire the lock runs no sync step, and no two
\* workers are in their sync steps at the same time.
C2_NoTwoJobsSyncing ==
    /\ \A j \in Jobs : InSyncSteps(j) => acquired[j]
    /\ \A j, k \in Jobs : (j # k /\ InSyncSteps(j)) => ~InSyncSteps(k)

Apis == {"monthly_sales_api", "monthly_sales_bulk_api"}

\* A step of one of the two monthly-sales views.
MonthlySalesStep(api, S, force_refresh, failAt) ==
    IF api = "monthly_sales_api"
    THEN monthly_sales_api(S, force_refresh, failAt)
    ELSE monthly_sales_bulk_api(S, force_refresh, failAt)

\* The Redis key of the store holds a quantity.
FastHit(s) == fast[s].ttl > 0 /\ fast[s].val >= 0

\* C4: a pair with a stale MonthlySales row (older than 30 minutes) and no
\* fast-tier entry, requested while the receipt scan's API request fails, is
\* answered with the stale row's quantity, and the request does not raise.
C4_StaleFallback ==
    [][\A failAt \in FailPoints(receipts) \ {0} :
          (resp'.op \in Apis
             /\ MonthlySalesStep(resp'.op, resp'.stores, resp'.force, failAt)) =>
             \A s \in resp'.stores :
                ( /\ rows[s].present /\ rows[s].age > StaleSeconds
                  /\ fast[s].ttl = 0
                  /\ resp'.failed )
                => (resp'.sales[s] = Some(rows[s].qty) /\ ~resp'.error)]_vars

\* C5: a full scan (sync_all_monthly_sales) one of whose page requests failed
\* persists no aggregate: the MonthlySales rows and the Redis keys are as
\* they were.
C5_NoPartialFullScan ==
    [][\A failAt \in FailPoints(receipts) \ {0} :
          (sync_all_monthly_sales(failAt) /\ resp'.failed)
          => (rows' = rows /\ fast' = fast)]_vars

\* C6: when the receipt scan of a monthly-sales request fails, no pair that
\* was passed to the scan has its Redis key or its MonthlySales row written.
C6_NoWriteOnFailure ==
    [][\A failAt \in FailPoints(receipts) \ {0} :
          (resp'.op \in Apis /\ resp'.failed
             /\ MonthlySalesStep(resp'.op, resp'.stores, resp'.force, failAt))
          => \A s \in resp'.scanned : fast'[s] = fast[s] /\ rows'[s] = rows[s]]_vars

KnownStoresIn(payload) ==
    {s \in AllStores :
        \E i \in 1..Len(payload.results) :
            payload.results[i].warehouse = store_korona_id[s]}

\* The stores that have a ProductStock row for the product.
StockRows(rws) == {s \in AllStores : rws[s].present}

\* A step of sync_stocks for the product that ran to its end.
SyncStocksDone ==
    /\ sresp'.op = "sync_stocks" /\ sresp'.status = "ok"
    /\ \E net \in NetOutcomes : sync_stocks(net)

\* C7: after sync_stocks completes for the product, whatever the response
\* was (a list of warehouses, an empty list, a 204, a list naming only
\* unknown warehouses), the stores with a ProductStock row are exactly the
\* known stores named in the most recent API response (the payload the
\* Redis key holds after the step); rows of stores absent from it are gone.
C7_RowsEqualResponse ==
    [][SyncStocksDone =>
          StockRows(stocks') = KnownStoresIn(stockCache'.payload)]_vars

\* C10: when fetch_product_stocks ends in a request error or in the
\* breaker's fail-fast error, product_stock_api does not end in an error and
\* answers every active store that has a ProductStock row with that row's
\* amount.
C10_AnswersFromRows ==
    [][\A scope \in Scopes, force_refresh \in BOOLEAN, net \in NetOutcomes :
          (/\ sresp'.op = "product_stock_api"
           /\ sresp'.result \in {"request_exception", "breaker_error"}
           /\ product_stock_api(scope, force_refresh, net))
          => /\ sresp'.status = "ok"
             /\ \A s \in ActiveStores :
                   stocks[s].present => sresp'.answer[s] = Some(stocks[s].actual)]_vars

\* C11: when fetch_product_stocks ends in a request error or in the
\* breaker's error, product_stock_api leaves the ProductStock rows as they
\* were: no row is created, overwritten or deleted.
C11_TableUnchangedOnFailure ==
    [][\A scope \in Scopes, force_refresh \in BOOLEAN, net \in NetOutcomes :
          (/\ sresp'.op = "product_stock_api"
           /\ sresp'.result \in {"request_exception", "breaker_error"}
           /\ product_stock_api(scope, force_refresh, net))
          => stocks' = stocks]_vars

(***************************************************************************)
(* Claims about Redis outages                                              *)
(***************************************************************************)

\* C12: with Redis unreachable, a monthly-sales request and a stock request
\* still end with an answer: neither ends in an error raised by a read or a
\* write of a Redis key.
C12_RedisFailureNeverFails ==
    [][~redisUp =>
          /\ \A failAt \in FailPoints(receipts) :
                (resp'.op \in Apis
                   /\ MonthlySalesStep(resp'.op, resp'.stores, resp'.force, failAt))
                => ~resp'.error
          /\ \A scope \in Scopes, force_refresh \in BOOLEAN, net \in NetOutcomes :
                (sresp'.op = "product_stock_api"
                   /\ product_stock_api(scope, force_refresh, net))
                => sresp'.result # "redis_error"]_vars

(***************************************************************************)
(* Further claims about the monthly-sales views                            *)
(***************************************************************************)

\* C13: when the live computation of a request fails (a page request of the
\* receipt scan fails), every pair that went to the computation and has no
\* MonthlySales row is left out of the answer,
\* the request does not end in an error, and the pairs that did not go to
\* the computation keep their values.
C13_OmittedWithoutRow ==
    [][\A failAt \in FailPoints(receipts) :
          (resp'.op \in Apis /\ resp'.failed
             /\ MonthlySalesStep(resp'.op, resp'.stores, resp'.force, failAt))
          => /\ ~resp'.error
             /\ \A s \in resp'.scanned : ~rows[s].present => ~resp'.sales[s].some
             /\ \A s \in resp'.stores \ resp'.scanned : resp'.sales[s].some]_vars

(***************************************************************************)
(* Claims about the receipt aggregators                                    *)
(***************************************************************************)

IsPositive(item) == item.quantity > 0

\* The receipts with every item of quantity <= 0 removed.
PositiveOnly(data) ==
    [pg \in DOMAIN data |->
        [i \in DOMAIN data[pg] |->
            [data[pg][i] EXCEPT
                !.items = SelectSeq(data[pg][i].items, IsPositive)]]]

\* The receipts with the items of every voided or cancelled receipt removed.
FlaggedEmptied(data) ==
    [pg \in DOMAIN data |->
        [i \in DOMAIN data[pg] |->
            IF data[pg][i].voided \/ data[pg][i].cancelled
            THEN [data[pg][i] EXCEPT !.items = <<>>]
            ELSE data[pg][i]]]

\* C14: in each of the four aggregators an item of quantity <= 0 contributes
\* nothing: the aggregate over the receipts equals the aggregate over the
\* same receipts with those items removed.
C14_NonPositiveContributesNothing ==
    aggOut.fn # "none" =>
        aggOut.out = Aggregate(aggOut.fn, aggOut.stores,
                               PositiveOnly(receipts), aggOut.failAt)

\* C15: in each of the four aggregators no item of a voided or cancelled
\* receipt contributes: the aggregate over the receipts equals the aggregate
\* over the same receipts with the items of those receipts removed.
C15_FlaggedContributeNothing ==
    aggOut.fn # "none" =>
        aggOut.out = Aggregate(aggOut.fn, aggOut.stores,
                               FlaggedEmptied(receipts), aggOut.failAt)

\* C15 witness: the single-store aggregate of store s1 over a cancelled
\* receipt of s1 selling p followed by a counted one is the counted sale alone.
C15_Witness ==
    /\ aggOut.fn = "calculate_monthly_sales" /\ aggOut.stores = {"s1"}
    /\ aggOut.failAt = 0
    /\ Len(receipts) = 2
    /\ receipts[1][1] = Receipt("k1", FALSE, TRUE, <<Item("p", 2), Item("q", 1)>>)
    /\ receipts[2][1] = Receipt("k1", FALSE, FALSE, <<Item("p", 2)>>)
    /\ aggOut.out["s1"] = 2

RoundHalfUp30(total_quantity, days_period) ==
    (60 * total_quantity + days_period) \div (2 * days_period)

\* C17: for a total quantity > 0 in a window of at least one day,
\* calculate_monthly_needed returns max(1, round(total / days * 30)) with
\* round-half-up.
C17_MonthlyNeededHalfUp ==
    needed.monthly_needed # 0 =>
        needed.monthly_needed =
            Max(1, RoundHalfUp30(needed.total_quantity, needed.days_period))

(***************************************************************************)
(* The circuit breaker under a run of calls through _api_request           *)
(***************************************************************************)

\* The calls followed in one run.
MaxCalls == 7

\* The seconds that pass in one step of the breaker's clock.
BreakerTickSeconds == 10

notBreaker ==
    <<refreshVars, salesVars, stockApi, stockCache, stocks, sresp, redisUp,
      aggOut, needed, txn, catalogVars, scan, listVars>>

\* One call through _api_request, ending as the network decides when the
\* request is sent.
ApiRequest(net) ==
    /\ Len(apiCalls) < MaxCalls
    /\ \E call \in {_api_request(breaker, net)} :
           /\ (~call.called) => net = "ok"
           /\ breaker' = call.breaker
           /\ apiCalls' = Append(apiCalls,
                                 [net |-> IF call.called THEN net ELSE "none",
                                  result |-> call.result,
                                  called |-> call.called])
    /\ UNCHANGED notBreaker

\* Time passes: the timeout of an open breaker runs down.
BreakerTick ==
    /\ breaker.remaining > 0
    /\ breaker' = IF breaker.remaining > BreakerTickSeconds
                  THEN [breaker EXCEPT !.remaining = @ - BreakerTickSeconds]
                  ELSE [breaker EXCEPT !.remaining = 0]
    /\ UNCHANGED apiCalls
    /\ UNCHANGED notBreaker

NextBreaker ==
    \/ \E net \in NetOutcomes : ApiRequest(net)
    \/ BreakerTick

SpecBreaker == Init /\ [][NextBreaker]_vars

(***************************************************************************)
(* Claims about the circuit breaker                                        *)
(***************************************************************************)

\* The infrastructure failures: a timeout or connection error, and a 5xx/429
\* response that survives the retries.
InfrastructureFailures == {"error", "http_5xx"}

\* The calls at the end of the log that each ended in an infrastructure
\* failure, with nothing but calls refused by the open breaker between them.
RECURSIVE ConsecutiveFailures(_)
ConsecutiveFailures(log) ==
    IF log = <<>> THEN 0
    ELSE LET last == log[Len(log)]
             rest == SubSeq(log, 1, Len(log) - 1)
         IN  IF ~last.called THEN ConsecutiveFailures(rest)
             ELSE IF last.net \in InfrastructureFailures
             THEN 1 + ConsecutiveFailures(rest)
             ELSE 0

\* A step that is one call through _api_request.
ApiRequestStep == apiCalls' # apiCalls

LastCall == apiCalls'[Len(apiCalls')]

\* C18: after 5 consecutive failed calls the breaker is open; while it is
\* open and its 30 seconds have not passed every call fails with the
\* breaker-open signal and nothing is sent; a successful call resets the
\* consecutive-failure count.
C18_OpensAndFailsFast ==
    [][ApiRequestStep =>
          /\ ConsecutiveFailures(apiCalls') >= fail_max => breaker'.state = "open"
          /\ (breaker.state = "open" /\ breaker.remaining > 0) =>
                 /\ LastCall.result = "breaker_error"
                 /\ ~LastCall.called
                 /\ breaker' = breaker
          /\ (LastCall.called /\ LastCall.net = "ok") =>
                 /\ breaker'.state = "closed"
                 /\ breaker'.counter = 0]_vars

\* The breaker counted the call as one more consecutive failure.
Counted ==
    \/ breaker'.state = "open"
    \/ breaker'.counter = breaker.counter + 1

\* C19: a call that reaches the network counts toward the breaker's
\* consecutive-failure count exactly when it ends in an infrastructure
\* failure; one that ends in a 4xx does not count.
C19_CountsInfrastructureFailures ==
    [][(ApiRequestStep /\ LastCall.called) =>
          (Counted <=> LastCall.net \in InfrastructureFailures)]_vars

(***************************************************************************)
(* sync_stocks statement by statement: the transaction of one product      *)
(***************************************************************************)

\* What another connection reads of the table while a transaction has
\* written `work` and not committed: with autocommit every statement would
\* show at once.
AutoCommit(work, committed) == work

\* transaction.atomic(): the statements of the block show when it commits.
InTransaction(work, committed) == committed

notAtomic == <<refreshVars, salesVars, redisUp, aggOut, needed, apiCalls, catalogVars, scan, listVars>>

\* The fetch of the product; a RequestException skips it, a 204 clears its
\* rows with the one DELETE of _clear_product_stocks, a payload opens the
\* transaction.
SyncFetch(net) ==
    /\ ~txn.open
    /\ \E f \in {fetch_product_stocks(FALSE, net)} :
           /\ (~f.called) => net = "ok"
           /\ stockCache' = f.cache
           /\ breaker' = f.breaker
           /\ stocks' = IF f.result = "ok" /\ f.payload.null
                        THEN [s \in AllStores |-> NoStock]
                        ELSE stocks
           /\ txn' = IF f.result = "ok" /\ ~f.payload.null
                     THEN [open |-> TRUE, results |-> f.payload.results, i |-> 1,
                           rows |-> stocks, seen |-> {}]
                     ELSE NoTxn
           /\ sresp' = [NoStockResp EXCEPT
                           !.op = "sync_stocks",
                           !.status = IF f.result = "ok"
                                      THEN IF f.payload.null THEN "ok" ELSE "running"
                                      ELSE IF f.result = "request_exception"
                                      THEN "skipped"
                                      ELSE "error",
                           !.result = f.result]
    /\ UNCHANGED stockApi
    /\ UNCHANGED notAtomic

\* One turn of "for entry in results": the entry is passed over or upserted.
SyncEntry ==
    /\ txn.open
    /\ txn.i <= Len(txn.results)
    /\ \E st \in {ApplyEntries(<<txn.results[txn.i]>>, 1, AllStores,
                               [rows |-> txn.rows, seen |-> txn.seen])} :
           /\ txn' = [txn EXCEPT !.i = @ + 1, !.rows = st.rows, !.seen = st.seen]
           /\ stocks' = InTransaction(st.rows, stocks)
    /\ UNCHANGED <<stockApi, stockCache, breaker, sresp>>
    /\ UNCHANGED notAtomic

\* A statement of the block raises (a database error, an amount that is no
\* decimal): the exception leaves the block, which rolls back, and ends the
\* command. The work thrown away stays in txn until the next fetch.
SyncRaises ==
    /\ txn.open
    /\ txn' = [txn EXCEPT !.open = FALSE]
    /\ stocks' = stocks
    /\ sresp' = [sresp EXCEPT !.status = "error", !.result = "rolled_back"]
    /\ UNCHANGED <<stockApi, stockCache, breaker>>
    /\ UNCHANGED notAtomic

\* After the last entry: the rows of the stores not seen are deleted if any
\* store was seen, and the block commits.
SyncCommit ==
    /\ txn.open
    /\ txn.i > Len(txn.results)
    /\ stocks' = IF Prunes(txn.seen)
                 THEN [s \in AllStores |->
                          IF s \in txn.seen THEN txn.rows[s] ELSE NoStock]
                 ELSE txn.rows
    /\ txn' = NoTxn
    /\ sresp' = [sresp EXCEPT !.status = "ok"]
    /\ UNCHANGED <<stockApi, stockCache, breaker>>
    /\ UNCHANGED notAtomic

NextAtomic ==
    \/ \E net \in NetOutcomes : SyncFetch(net)
    \/ SyncEntry
    \/ SyncRaises
    \/ SyncCommit
    \/ StockTick
    \/ StockUpstreamChange

SpecAtomic == Init /\ [][NextAtomic]_vars

(***************************************************************************)
(* Claims about the transaction of sync_stocks                             *)
(***************************************************************************)

\* The table after all the upserts of `results` and the deletion of the
\* rows not reported.
AllApplied(table, results) ==
    LET st == ApplyEntries(results, 1, AllStores, [rows |-> table, seen |-> {}])
    IN  IF Prunes(st.seen)
        THEN [s \in AllStores |-> IF s \in st.seen THEN st.rows[s] ELSE NoStock]
        ELSE st.rows

\* C20: the upserts and the deletion of one product are applied as one
\* unit: whenever the table changes, it changes from the table before the
\* product to the table with all of them applied (or, on a 204, to no rows);
\* a failure part-way leaves the table as it was.
C20_AtomicPerProduct ==
    [][stocks' # stocks =>
          \/ /\ txn.open /\ ~txn'.open
             /\ sresp'.status = "ok"
             /\ stocks' = AllApplied(stocks, txn.results)
          \/ /\ ~txn.open /\ ~txn'.open
             /\ stocks' = [s \in AllStores |-> NoStock]]_vars

\* A transaction that had upserted a row was rolled back.
C20_Witness ==
    /\ ~txn.open
    /\ sresp.result = "rolled_back"
    /\ txn.rows # stocks
    /\ txn.i <= Len(txn.results)

(***************************************************************************)
(* The catalog runs and the stock runs of one period                       *)
(***************************************************************************)

\* No stock operation has run.
StockIdle ==
    /\ stockApi = Payload(<<Entry("k1", 5)>>)
    /\ stockCache = NoCache
    /\ stocks = [s \in AllStores |-> NoStock]
    /\ sresp = NoStockResp

\* No run of sync_stores, and the organizational units as at the start.
StoresIdle ==
    /\ storeRows = [k \in StoreIds |->
                       IF k \in {"k1", "k2"}
                       THEN [present |-> TRUE, name |-> "A", active |-> TRUE]
                       ELSE IF k = "k3"
                       THEN [present |-> TRUE, name |-> "A", active |-> FALSE]
                       ELSE NoStoreRow]
    /\ korona.organizationalUnits =
           <<OrgUnit("k1", "A", TRUE), OrgUnit("k2", "A", TRUE)>>
    /\ \A i \in 1 .. Len(syncLog) : syncLog[i].op # "sync_stores"

\* No run of load_products, and the products as at the start.
ProductsIdle ==
    /\ productRows = [n \in ProductNumbers |-> NoProductRow]
    /\ korona.products =
           <<ProductItem("u1", "1", "P"), ProductItem("u2", "2", "Q")>>
    /\ \A i \in 1 .. Len(syncLog) : syncLog[i].op # "load_products"

\* The three commands share the breaker only: they are followed one
\* command at a time.
NextSync ==
    \/ StockIdle /\ ProductsIdle
           /\ \E net1, net2 \in NetOutcomes : sync_stores(net1, net2)
    \/ StockIdle /\ StoresIdle
           /\ \E net1, net2 \in NetOutcomes : load_products(net1, net2)
    \/ /\ StockIdle
       /\ KoronaChange
       /\ IF korona'.products = korona.products THEN ProductsIdle ELSE StoresIdle
    \/ InitCatalog /\ \E net \in NetOutcomes : sync_stocks(net)
    \/ InitCatalog /\ StockTick
    \/ InitCatalog /\ StockUpstreamChange

SpecSync == Init /\ [][NextSync]_vars

(***************************************************************************)
(* Claims about the catalog                                                *)
(***************************************************************************)

\* The ids of the fetched organizational units.
FetchedIds(data) == {data[i].id : i \in 1 .. Len(data)}

LastRun == syncLog[Len(syncLog)]

\* C21: no sync_stores run deletes a Store row, and after a successful run
\* every store that existed before it and is absent from the fetched set is
\* inactive.
C21_SoftDeleteOnly ==
    [][\A net1, net2 \in NetOutcomes :
          sync_stores(net1, net2) =>
              /\ \A k \in StoreIds : storeRows[k].present => storeRows'[k].present
              /\ syncLog'[Len(syncLog')].status = "ok" =>
                     \A k \in StoreIds :
                         (storeRows[k].present
                              /\ k \notin FetchedIds(korona.organizationalUnits))
                             => ~storeRows'[k].active]_vars

\* A store that was active is inactive after a successful run that did not
\* fetch it.
C21_Witness ==
    /\ syncLog # <<>>
    /\ LastRun.op = "sync_stores"
    /\ LastRun.status = "ok"
    /\ "k2" \notin FetchedIds(korona.organizationalUnits)
    /\ storeRows["k2"].present
    /\ ~storeRows["k2"].active

\* C22: the second of two successive runs of sync_stores, or of
\* load_products, against the same upstream data reports created = 0 and
\* updated = 0.
C22_SecondRunReportsZero ==
    (/\ Len(syncLog) = 2
     /\ syncLog[1].op = syncLog[2].op
     /\ syncLog[1].status = "ok"
     /\ syncLog[2].status = "ok")
        => (syncLog[2].created = 0 /\ syncLog[2].updated = 0)

\* The records without a data error.
GoodOrgUnit(item) == item.id # "" /\ ~InvalidUUID(item.id)

GoodProduct(row) == row.number # "" /\ int(row.number) # 0 /\ row.name # ""

GoodEntry(entry) ==
    /\ entry.warehouse # ""
    /\ ~InvalidUUID(entry.warehouse)
    /\ \E s \in AllStores : store_korona_id[s] = entry.warehouse

\* The ProductStock rows after the good entries alone: as they were when
\* there is none.
StocksAfterGood(table, payload) ==
    IF payload.null THEN [s \in AllStores |-> NoStock]
    ELSE IF SelectSeq(payload.results, GoodEntry) = <<>> THEN table
    ELSE AllApplied(table, SelectSeq(payload.results, GoodEntry))

StepRank(step) ==
    CASE step = "none" -> 0
      [] step = "queued" -> 1
      [] step = "init" -> 2
      [] step = "stores" -> 3
      [] step = "products" -> 4
      [] step = "done" -> 5
      [] step = "error" -> 5

\* done = true only in a terminal status.
TerminalOrRunning(status) ==
    status.done =>
        \/ status.step = "done" /\ status.progress = 100 /\ ~status.error
        \/ status.step = "error" /\ status.error

\* C24: the statuses of a job have non-decreasing progress within 0..100 and
\* go through queued, init, stores, products, done in this order (error may
\* end them at any point); the products step starts only after the store
\* sync has returned; done = true only in a terminal status, step done with
\* progress 100 or step error with the error kept, and a terminal status
\* does not change.
C24_StatusOrder ==
    [][\A j \in Jobs :
          /\ jobStatus'[j].progress >= jobStatus[j].progress
          /\ jobStatus'[j].progress \in 0 .. 100
          /\ \/ jobStatus'[j].step = jobStatus[j].step
             \/ StepRank(jobStatus'[j].step) = StepRank(jobStatus[j].step) + 1
             \/ jobStatus'[j].step = "error" /\ ~jobStatus[j].done
          /\ (jobStatus'[j].step = "products" /\ jobStatus[j].step # "products")
                 => (jobPc[j] = "products_msg" /\ jobStatus[j].progress = 40)
          /\ TerminalOrRunning(jobStatus'[j])
          /\ jobStatus[j].done => jobStatus'[j] = jobStatus[j]]_vars

\* One job has ended in error during the products step with its progress
\* kept, another with step done.
C24_Witness ==
    \E j, k \in Jobs :
        /\ jobStatus[j].step = "error" /\ jobStatus[j].done
        /\ jobStatus[j].progress = 45
        /\ jobStatus[k].step = "done" /\ jobStatus[k].progress = 100

\* The refresh job with time passing: the clock is not held up for ever.
SpecRefreshLive == Init /\ [][NextRefresh]_vars /\ WF_vars(RefreshTick)

\* C25: the lock of a job that crashed without its cleanup is gone once its
\* lease (at most 1800 seconds, never renewed) has run out, and a start
\* request that finds no lock is answered with a job id, not a conflict.
C25_LeaseExpires ==
    /\ \A j \in Jobs : (lock.val = j /\ jobPc[j] = "crashed") ~> (lock.val # j)
    /\ [][/\ lock'.ttl <= LockLease
          /\ (lock'.val = lock.val /\ lock.val # "") => lock'.ttl <= lock.ttl
          /\ \A j \in Jobs :
                 (StartCheck(j) /\ ~redis_exists(lock)) => reqPc'[j] = "checked"
          /\ \A j \in Jobs : StartSpawn(j) => reqResult'[j] = "job"]_vars

\* A job crashed holding the lock, and a later start request was answered
\* with a job id whose worker acquired the lock.
C25_Witness ==
    \E j, k \in Jobs :
        /\ j # k
        /\ jobPc[j] = "crashed" /\ acquired[j]
        /\ reqResult[k] = "job" /\ acquired[k]
        /\ lock.val = k

\* C28: the cleanup of job J never removes the lock while another job holds
\* it: when J deletes the key refresh_job:lock its value is J's id (or the
\* key is gone already and nothing is removed).
C28_DeletesOwnLockOnly ==
    [][\A j \in Jobs : JobFinallyDelete(j) => lock.val \in {j, ""}]_vars

(***************************************************************************)
(* Further claims about the monthly-sales tiers                            *)
(***************************************************************************)

\* C29: between monthly-sales operations, every (product, store) pair that
\* has both a Redis key monthly_sales:<product>:<store> and a MonthlySales
\* row holds the same quantity in both.
C29_TiersAgree ==
    \A s \in Stores :
        (fast[s].ttl > 0 /\ rows[s].present) => fast[s].val = rows[s].qty

(***************************************************************************)
(* Further claims about the receipt scans                                  *)
(***************************************************************************)

InitScan ==
    /\ InitRefresh /\ InitStock /\ redisUp = TRUE
    /\ receipts \in ScanWindows
    /\ fast = [s \in Stores |-> NoKey]
    /\ rows = [s \in Stores |-> NoRow]
    /\ live = [s \in Stores |-> NoLive]
    /\ resp = NoResp
    /\ aggOut = NoAggregate
    /\ needed = NoNeed
    /\ apiCalls = <<>>
    /\ txn = NoTxn
    /\ InitCatalog
    /\ scan = NoScan
    /\ InitLists

SpecScan == InitScan /\ [][NextScan]_vars

\* The receipts of the window, by page and place in the page.
WindowReceipts ==
    {<<p, i>> : p \in 1 .. 3, i \in 1 .. 3}
        \cap {pi \in (1 .. Len(receipts)) \X (1 .. 3) : pi[2] <= Len(receipts[pi[1]])}

\* The page a scan of the window is to stop after: the first page p with
\* p >= pagesTotal, or the first empty page.
StopPage ==
    CHOOSE p \in 1 .. Len(receipts) + 1 :
        /\ ReceiptsPage(receipts, p).results = <<>> \/ p >= Len(receipts)
        /\ \A q \in 1 .. p - 1 :
               ReceiptsPage(receipts, q).results # <<>> /\ q < Len(receipts)

\* C26: within one receipt scan the pages requested are 1, 2, 3, ... in this
\* order, each once, and the scan stops after the first page p with
\* p >= pagesTotal or on an empty page, every receipt of the window having
\* been gone through exactly once.
C26_PagesInOrderToTheEnd ==
    /\ \A i \in 1 .. Len(scan.requested) : scan.requested[i] = i
    /\ scan.running => scan.page = Len(scan.requested) + 1
    /\ (scan.fn # "none" /\ ~scan.running) =>
           /\ Len(scan.requested) = StopPage
           /\ Range(scan.seen) = WindowReceipts
           /\ Len(scan.seen) = Cardinality(WindowReceipts)

\* The same for the scans none of whose requests failed.
C26_UnfailedScans == scan.failed \/ C26_PagesInOrderToTheEnd

\* The sums of a scan without a failed request are those of the window.
C26_UnfailedSums ==
    (scan.fn # "none" /\ ~scan.running /\ ~scan.failed) =>
        scan.acc = Aggregate(scan.fn, scan.stores, receipts, 0)

(***************************************************************************)
(* Further claims about the stock cache                                    *)
(***************************************************************************)

\* C30: while the key stock:<product> written by a successful
\* fetch_product_stocks is there (within its TTL), a call with
\* force_refresh = false returns the cached result, a 204's None included,
\* without a request to the API.
C30_CachedResultReused ==
    stockCache.present =>
        \A net \in NetOutcomes :
            LET f == fetch_product_stocks(FALSE, net)
            IN  /\ ~f.called
                /\ f.result = "ok"
                /\ f.payload = stockCache.payload

\* The same for the responses other than 204.
C30_CachedPayloadReused == stockCache.payload.null \/ C30_CachedResultReused

(***************************************************************************)
(* Claims about the weekly order list                                      *)
(***************************************************************************)

InitWeekly == InitScan /\ receipts = ReceiptsA

SpecLists == InitWeekly /\ [][NextLists]_vars

\* C27: while the list is finalized, no add-item, update-item or
\* delete-item request of a user who is not staff changes an item of the
\* list, however the requests interleave with finalize and unfinalize.
C27_FinalizedItemsUnchanged ==
    [][weekly.finalized => weekly'.item = weekly.item]_vars

\* A request that reads the list while it is finalized is answered with 403
\* and goes no further.
C27_RejectedWhenRead ==
    [][\A r \in Requests, op \in {"add", "update", "delete"} :
          (ItemRequestCheck(r, op) /\ weekly.finalized) =>
              (itemReq'[r].status = 403 /\ itemReq'[r].pc = "done")]_vars

====
